---- MODULE Spec2Model ----
(***************************************************************************)
(* The SR830 lock-in amplifier wrapper of src/sr830/sr830.py as a state    *)
(* machine: the sr830 object (its instr attribute and the position of the  *)
(* call in progress), the instrument at the other end of the VISA resource *)
(* (the settings and status bytes it holds), and the                       *)
(* outcome of the last public call.                                        *)
(*                                                                         *)
(* Text on the wire is a sequence of one-character strings that follows a  *)
(* four-character command mnemonic: "DDEF 1, 0, 2" is                      *)
(* <<"DDEF", " ", "1", ",", " ", "0", ",", " ", "2">>.  Numbers are        *)
(* formatted and parsed digit by digit, as the f-strings and int() do.     *)
(* Float-valued arguments are carried as integers in the unit of their     *)
(* last documented digit (phase in degrees, offsets in percent, aux        *)
(* voltages in tenths of a volt).                                          *)
(***************************************************************************)
EXTENDS Integers, Sequences, FiniteSets, TLC

VARIABLES
    instr,   \* self.instr: "None" after __init__, "open" after connect
    opened,  \* the resource handles the object has opened, oldest first
    store,   \* the instrument: the stored value(s) of every setting
    pc,      \* position of the call in progress, "idle" between calls
    pend,    \* arguments of the connect() in progress while reset() polls
    call,    \* the last public call: what was asked, what came back
    ops      \* number of public calls made so far

vars == <<instr, opened, store, pc, pend, call, ops>>

\* Number of public calls explored in one session.
MaxOps == 3

\* Points the data buffer holds in the sessions checked.
MaxPoints == 2

(***************************************************************************)
(* Text: formatting and parsing                                            *)
(***************************************************************************)

Digits == <<"0", "1", "2", "3", "4", "5", "6", "7", "8", "9">>

RECURSIVE NatStr(_)
NatStr(n) ==
    IF n < 10 THEN <<Digits[n + 1]>>
    ELSE NatStr(n \div 10) \o <<Digits[(n % 10) + 1]>>

\* f"{n}" of an integer
Str(n) == IF n < 0 THEN <<"-">> \o NatStr(-n) ELSE NatStr(n)

IsDigit(c) == \E d \in 1..10 : Digits[d] = c

DigitVal(c) == (CHOOSE d \in 1..10 : Digits[d] = c) - 1

RECURSIVE LStrip(_)
LStrip(s) == IF s # <<>> /\ Head(s) = " " THEN LStrip(Tail(s)) ELSE s

RECURSIVE RStrip(_)
RStrip(s) ==
    IF s # <<>> /\ s[Len(s)] = " " THEN RStrip(SubSeq(s, 1, Len(s) - 1)) ELSE s

Strip(s) == RStrip(LStrip(s))

Unsigned(s) == IF s # <<>> /\ Head(s) \in {"-", "+"} THEN Tail(s) ELSE s

\* int(s) succeeds: optional blanks, an optional sign, at least one digit
IsIntText(s) ==
    LET u == Unsigned(Strip(s))
    IN  u # <<>> /\ \A i \in 1..Len(u) : IsDigit(u[i])

RECURSIVE DigitsVal(_)
DigitsVal(u) ==
    IF u = <<>> THEN 0
    ELSE 10 * DigitsVal(SubSeq(u, 1, Len(u) - 1)) + DigitVal(u[Len(u)])

\* int(s)
ParseInt(s) ==
    LET t == Strip(s)
        u == Unsigned(t)
    IN  IF Head(t) = "-" THEN -DigitsVal(u) ELSE DigitsVal(u)

\* s.split(sep)
RECURSIVE Split(_, _)
Split(s, sep) ==
    IF \A i \in 1..Len(s) : s[i] # sep THEN <<s>>
    ELSE LET k == CHOOSE i \in 1..Len(s) :
                      s[i] = sep /\ \A j \in 1..(i - 1) : s[j] # sep
         IN  <<SubSeq(s, 1, k - 1)>> \o Split(SubSeq(s, k + 1, Len(s)), sep)

\* ",".join(str(v) for v in vals)
RECURSIVE Join(_)
Join(vals) ==
    IF vals = <<>> THEN <<>>
    ELSE IF Len(vals) = 1 THEN Str(vals[1])
    ELSE Str(vals[1]) \o <<",">> \o Join(Tail(vals))

\* f"{mnemonic} {a}" and f"{mnemonic} {a}, {b}, {c}": arguments separated by sep
RECURSIVE ArgText(_, _)
ArgText(args, sep) ==
    IF args = <<>> THEN <<>>
    ELSE IF Len(args) = 1 THEN Str(args[1])
    ELSE Str(args[1]) \o sep \o ArgText(Tail(args), sep)

Command(mnemonic, args, sep) == <<mnemonic, " ">> \o ArgText(args, sep)

Query(mnemonic, args, sep) ==
    IF args = <<>> THEN <<mnemonic, "?">>
    ELSE <<mnemonic, "?", " ">> \o ArgText(args, sep)

(***************************************************************************)
(* The instrument behind the VISA resource.  It stores each setting it is  *)
(* sent and answers the matching query with what it stores.                *)
(***************************************************************************)

\* Enable registers, by command mnemonic (_enable_register_cmd_dict).
EnableCmds == {"*ESE", "*SRE", "ERRE", "LIAE"}

\* Status bytes, by query mnemonic (_status_byte_cmd_dict).
StatusCmds == {"*ESR", "*STB", "ERRS", "LIAS"}

\* Settings holding one number.
ScalarCmds ==
    {"PHAS", "FMOD", "FREQ", "RSLP", "HARM", "SLVL", "ISRC", "IGND", "ICPL",
     "ILIN", "SENS", "RMOD", "OFLT", "OFSL", "SYNC", "OUTX", "KCLK", "ALRM",
     "SRAT", "SEND", "TSTR", "FAST", "LOCL", "OVRM", "*PSC"} \cup EnableCmds

\* Settings addressed by a channel, parameter or output number: the numbers
\* the instrument knows, and how many values it stores for each.
IndexOf(m) ==
    CASE m = "DDEF" -> 1..2
      [] m = "FPOP" -> 1..2
      [] m = "OEXP" -> 1..3
      [] m = "AUXV" -> 1..4
      [] m = "OUTP" -> 1..4
      [] m = "OUTR" -> 1..2
      [] m = "OAUX" -> 1..4
      [] OTHER -> {}

IndexedCmds == {"DDEF", "FPOP", "OEXP", "AUXV"}

\* Measurements, read but never written.
MeasureCmds == {"OUTP", "OUTR", "OAUX"}

Width(m) == IF m \in {"DDEF", "OEXP"} THEN 2 ELSE 1

\* Data storage: whether points are being stored (1) or not (0), and the
\* points stored for each channel, oldest first, every point two words: a
\* mantissa and then an exponent, the value being mantissa * 2^(exponent -
\* 124).
StorageKeys == {<<"STRT", 0>>, <<"TRCL", 1>>, <<"TRCL", 2>>}

Keys ==
    {<<m, 0>> : m \in ScalarCmds \cup StatusCmds}
        \cup UNION {{<<m, i>> : i \in IndexOf(m)} :
                        m \in IndexedCmds \cup MeasureCmds}
        \cup StorageKeys

\* What the instrument holds before anything is written to it.
PowerOn ==
    [k \in Keys |->
        IF k[1] = "HARM" THEN <<1>>
        ELSE IF k[1] = "FREQ" THEN <<1000>>
        ELSE IF k[1] = "SLVL" THEN <<1000>>
        ELSE IF k[1] \in {"DDEF", "OEXP"} THEN <<0, 0>>
        ELSE IF k[1] = "*STB" THEN <<2>>
        ELSE IF k[1] = "TRCL" THEN <<>>
        ELSE <<0>>]

IsQuery(msg) == Len(msg) >= 2 /\ msg[2] = "?"

\* The text of a message after its mnemonic and question mark.
ArgsText(msg) == SubSeq(msg, IF IsQuery(msg) THEN 3 ELSE 2, Len(msg))

StripAll(f) == [i \in 1..Len(f) |-> Strip(f[i])]

\* The argument fields of a message, blanks stripped.
Fields(msg) ==
    IF Strip(ArgsText(msg)) = <<>> THEN <<>>
    ELSE StripAll(Split(ArgsText(msg), ","))

AllIntText(f) == \A i \in 1..Len(f) : IsIntText(f[i])

WellFormed(msg) == AllIntText(Fields(msg))

ParseAll(f) == [i \in 1..Len(f) |-> ParseInt(f[i])]

Args(msg) == ParseAll(Fields(msg))

Pow2(i) == CASE i = 0 -> 1 [] i = 1 -> 2 [] i = 2 -> 4 [] i = 3 -> 8
             [] i = 4 -> 16 [] i = 5 -> 32 [] i = 6 -> 64 [] i = 7 -> 128

Bit(x, i) == (x \div Pow2(i)) % 2

SetBit(x, i, b) == x - Bit(x, i) * Pow2(i) + b * Pow2(i)

\* Number of points stored.
Points(st) == Len(st[<<"TRCL", 1>>]) \div 2

Storing(st) == st[<<"STRT", 0>>] = <<1>>

\* The value of the point whose words start at position i of words.
PointValue(words, i) == words[i] * Pow2(words[i + 1] - 124)

\* The values of bins points of channel c from bin start_bin on.
Trace(st, c, start_bin, bins) ==
    [i \in 1..bins |-> PointValue(st[<<"TRCL", c>>], 2 * (start_bin + i) - 1)]

\* The words of bins points of channel c from bin start_bin on.
TraceWords(st, c, start_bin, bins) ==
    SubSeq(st[<<"TRCL", c>>], 2 * start_bin + 1, 2 * (start_bin + bins))

\* The instrument holds the bins asked for.
InTrace(st, a) ==
    /\ Len(a) = 3
    /\ a[1] \in 1..2
    /\ a[2] >= 0
    /\ a[3] >= 1
    /\ a[2] + a[3] <= Points(st)

\* Where the instrument holds the value SNAP? reports for parameter p: X, Y,
\* R, phase, the four aux inputs, the reference frequency and the two
\* channel displays.
SnapKey(p) ==
    IF p \in 1..4 THEN <<"OUTP", p>>
    ELSE IF p \in 5..8 THEN <<"OAUX", p - 4>>
    ELSE IF p = 9 THEN <<"FREQ", 0>>
    ELSE <<"OUTR", p - 9>>

\* The values SNAP? reports for the parameters a.
Snap(st, a) == [i \in 1..Len(a) |-> st[SnapKey(a[i])][1]]

\* The instrument executes the command with mnemonic m and arguments a.
InstrStore(st, m, a) ==
    IF m \in {"STRT", "STRD"} /\ Len(a) = 0
    THEN [st EXCEPT ![<<"STRT", 0>>] = <<1>>]
    ELSE IF m = "PAUS" /\ Len(a) = 0
    THEN [st EXCEPT ![<<"STRT", 0>>] = <<0>>]
    ELSE IF m = "REST" /\ Len(a) = 0
    THEN [st EXCEPT ![<<"STRT", 0>>] = <<0>>, ![<<"TRCL", 1>>] = <<>>,
                    ![<<"TRCL", 2>>] = <<>>]
    ELSE IF m \in EnableCmds /\ Len(a) = 2 /\ a[1] \in 0..7 /\ a[2] \in 0..1
    THEN [st EXCEPT ![<<m, 0>>] = <<SetBit(st[<<m, 0>>][1], a[1], a[2])>>]
    ELSE IF m \in ScalarCmds /\ Len(a) = 1
    THEN [st EXCEPT ![<<m, 0>>] = a]
    ELSE IF m \in IndexedCmds /\ Len(a) = Width(m) + 1 /\ a[1] \in IndexOf(m)
    THEN [st EXCEPT ![<<m, a[1]>>] = Tail(a)]
    ELSE st

\* The instrument receives a command.
InstrWrite(st, msg) ==
    IF IsQuery(msg) \/ ~WellFormed(msg) THEN st
    ELSE InstrStore(st, Head(msg), Args(msg))

NoResponse == <<>>

\* The identification string, its four fields unbroken.
Idn ==
    <<"Stanford_Research_Systems", ",", "SR830", ",", "s/n00111", ",",
      "ver1.000">>

\* The instrument answers the query with mnemonic m and arguments a.
InstrAnswer(st, m, a) ==
    IF m = "*IDN" /\ Len(a) = 0
    THEN Idn
    ELSE IF m = "SPTS" /\ Len(a) = 0
    THEN Str(Points(st))
    ELSE IF m = "SNAP" /\ Len(a) \in 2..6 /\ \A i \in 1..Len(a) : a[i] \in 1..11
    THEN Join(Snap(st, a))
    ELSE IF m = "TRCA" /\ InTrace(st, a)
    THEN Join(Trace(st, a[1], a[2], a[3]))
    ELSE IF m \in EnableCmds \cup StatusCmds /\ Len(a) = 1 /\ a[1] \in 0..7
    THEN Str(Bit(st[<<m, 0>>][1], a[1]))
    ELSE IF m \in ScalarCmds \cup StatusCmds /\ Len(a) = 0
    THEN Join(st[<<m, 0>>])
    ELSE IF m \in IndexedCmds \cup MeasureCmds /\ Len(a) = 1
            /\ a[1] \in IndexOf(m)
    THEN Join(st[<<m, a[1]>>])
    ELSE NoResponse

\* The instrument receives a query: the text it answers, or nothing.
InstrQuery(st, msg) ==
    IF ~IsQuery(msg) \/ ~WellFormed(msg) THEN NoResponse
    ELSE InstrAnswer(st, Head(msg), Args(msg))

\* Bit 1 (IFC) of the serial poll status byte is 0 while a command executes.
Busy(st) == Bit(st[<<"*STB", 0>>][1], 1) = 0

SetBusy(st, b) ==
    [st EXCEPT ![<<"*STB", 0>>] = <<SetBit(st[<<"*STB", 0>>][1], 1, IF b THEN 0 ELSE 1)>>]

\* *RST: the instrument starts executing the reset; every setting but the
\* output interface returns to its default, and the status enable registers
\* are cleared or kept.
InstrReset(st, clear) ==
    [k \in Keys |->
        IF k[1] = "OUTX" THEN st[k]
        ELSE IF k[1] = "*STB" THEN SetBusy(st, TRUE)[k]
        ELSE IF k[1] \in EnableCmds /\ ~clear THEN st[k]
        ELSE PowerOn[k]]

\* AGAN, ARSV, APHS: the instrument starts executing the automatic function,
\* or does nothing (AGAN with a time constant above 1 s).
InstrAuto(st, executes) == IF executes THEN SetBusy(st, TRUE) ELSE st
(***************************************************************************)
(* The wrapper.  Every operation maps the instrument's state to a result:  *)
(* the instrument's state afterwards, how the call ended ("ok" or the      *)
(* exception raised), the value returned, and the messages written to the  *)
(* resource.                                                               *)
(***************************************************************************)

Result(st, outcome, ret, sent) ==
    [store |-> st, outcome |-> outcome, ret |-> ret, sent |-> sent]

\* raise exc(...) before anything is written
Raise(st, exc) == Result(st, exc, <<>>, <<>>)

\* self.instr.write(msg) as a statement
write(st, msg) == Result(InstrWrite(st, msg), "ok", <<>>, <<msg>>)

\* int(resp) of the answer to msg: a timeout when nothing was answered,
\* ValueError when the answer is not the text of an integer
int_of(st, msg, resp) ==
    IF resp = NoResponse THEN Result(st, "VisaIOError", <<>>, <<msg>>)
    ELSE IF ~IsIntText(resp) THEN Result(st, "ValueError", <<>>, <<msg>>)
    ELSE Result(st, "ok", <<ParseInt(resp)>>, <<msg>>)

\* int(self.instr.query(msg))
query_int(st, msg) == int_of(st, msg, InstrQuery(st, msg))

\* float(self.instr.query(msg)), the value in its scaled unit
query_float(st, msg) == int_of(st, msg, InstrQuery(st, msg))

\* a, b = resp.split(","); return number(a), int(b)
pair_of(st, msg, resp, f) ==
    IF resp = NoResponse THEN Result(st, "VisaIOError", <<>>, <<msg>>)
    ELSE IF Len(f) # 2 \/ ~IsIntText(f[1]) \/ ~IsIntText(f[2])
    THEN Result(st, "ValueError", <<>>, <<msg>>)
    ELSE Result(st, "ok", <<ParseInt(f[1]), ParseInt(f[2])>>, <<msg>>)

\* a, b = self.instr.query(msg).split(",")
query_pair(st, msg) ==
    pair_of(st, msg, InstrQuery(st, msg), Split(InstrQuery(st, msg), ","))

\* Two statements in sequence: the second runs when the first did not raise.
Then(r1, r2) ==
    IF r1.outcome # "ok" THEN r1
    ELSE Result(r2.store, r2.outcome, r2.ret, r1.sent \o r2.sent)

\* Number of characters of a message; every mnemonic has four.
MessageLen(msg) == 4 + (Len(msg) - 1)

(***************************************************************************)
(* Properties: one getter and one setter each                              *)
(***************************************************************************)

\* reference_phase_shift: property, src/sr830/sr830.py 388-397
reference_phase_shift_get(st) == query_float(st, Query("PHAS", <<>>, <<>>))

\* reference_phase_shift: setter, src/sr830/sr830.py 399-414
reference_phase_shift_set(st, phase_shift) ==
    IF (phase_shift >= -360) /\ (phase_shift <= 720)
    THEN write(st, Command("PHAS", <<phase_shift>>, <<>>))
    ELSE Raise(st, "ValueError")

\* reference_source: property, src/sr830/sr830.py 416-428
reference_source_get(st) == query_int(st, Query("FMOD", <<>>, <<>>))

\* reference_source: setter, src/sr830/sr830.py 430-448
reference_source_set(st, source) ==
    IF source \in {0, 1}
    THEN write(st, Command("FMOD", <<source>>, <<>>))
    ELSE Raise(st, "ValueError")

\* reference_frequency: property, src/sr830/sr830.py 450-459
reference_frequency_get(st) == query_float(st, Query("FREQ", <<>>, <<>>))

\* reference_frequency: setter, src/sr830/sr830.py 461-476
reference_frequency_set(st, freq) ==
    IF (freq >= 1) /\ (freq <= 102000000)
    THEN write(st, Command("FREQ", <<freq>>, <<>>))
    ELSE Raise(st, "ValueError")

\* reference_trigger: property, src/sr830/sr830.py 478-491
reference_trigger_get(st) == query_int(st, Query("RSLP", <<>>, <<>>))

\* reference_trigger: setter, src/sr830/sr830.py 493-512
reference_trigger_set(st, trigger) ==
    IF trigger \in {0, 1, 2}
    THEN write(st, Command("RSLP", <<trigger>>, <<>>))
    ELSE Raise(st, "ValueError")

\* harmonic: property, src/sr830/sr830.py 514-523
harmonic_get(st) == query_int(st, Query("HARM", <<>>, <<>>))

\* harmonic: setter, src/sr830/sr830.py 525-539
harmonic_set(st, harmonic) ==
    IF (harmonic >= 1) /\ (harmonic <= 19999)
    THEN write(st, Command("HARM", <<harmonic>>, <<>>))
    ELSE Raise(st, "ValueError")

\* sine_amplitude: property, src/sr830/sr830.py 541-550
sine_amplitude_get(st) == query_float(st, Query("SLVL", <<>>, <<>>))

\* sine_amplitude: setter, src/sr830/sr830.py 552-567
sine_amplitude_set(st, amplitude) ==
    IF (amplitude >= 4) /\ (amplitude <= 5000)
    THEN write(st, Command("SLVL", <<amplitude>>, <<>>))
    ELSE Raise(st, "ValueError")

\* input_configuration: property, src/sr830/sr830.py 569-583
input_configuration_get(st) == query_int(st, Query("ISRC", <<>>, <<>>))

\* input_configuration: setter, src/sr830/sr830.py 585-605
input_configuration_set(st, config) ==
    IF config \in 0..3
    THEN write(st, Command("ISRC", <<config>>, <<>>))
    ELSE Raise(st, "ValueError")

\* input_shield_grounding: property, src/sr830/sr830.py 607-619
input_shield_grounding_get(st) == query_int(st, Query("IGND", <<>>, <<>>))

\* input_shield_grounding: setter, src/sr830/sr830.py 621-639
input_shield_grounding_set(st, grounding) ==
    IF grounding \in {0, 1}
    THEN write(st, Command("IGND", <<grounding>>, <<>>))
    ELSE Raise(st, "ValueError")

\* input_coupling: property, src/sr830/sr830.py 641-653
input_coupling_get(st) == query_int(st, Query("ICPL", <<>>, <<>>))

\* input_coupling: setter, src/sr830/sr830.py 655-672
input_coupling_set(st, coupling) ==
    IF coupling \in {0, 1}
    THEN write(st, Command("ICPL", <<coupling>>, <<>>))
    ELSE Raise(st, "ValueError")

\* line_notch_filter_status: property, src/sr830/sr830.py 674-688
line_notch_filter_status_get(st) == query_int(st, Query("ILIN", <<>>, <<>>))

\* line_notch_filter_status: setter, src/sr830/sr830.py 690-711
line_notch_filter_status_set(st, status) ==
    IF status \in 0..3
    THEN write(st, Command("ILIN", <<status>>, <<>>))
    ELSE Raise(st, "ValueError")

\* The sensitivity getter querying the time constant instead.
sensitivity_get_swapped(st) == query_int(st, Query("OFLT", <<>>, <<>>))

\* sensitivity: property, src/sr830/sr830.py 715-752
sensitivity_get(st) == query_int(st, Query("SENS", <<>>, <<>>))

\* sensitivity: setter, src/sr830/sr830.py 754-797
sensitivity_set(st, sensitivity) ==
    IF sensitivity \in 0..26
    THEN write(st, Command("SENS", <<sensitivity>>, <<>>))
    ELSE Raise(st, "ValueError")

\* reserve_mode: property, src/sr830/sr830.py 799-812
reserve_mode_get(st) == query_int(st, Query("RMOD", <<>>, <<>>))

\* reserve_mode: setter, src/sr830/sr830.py 814-833
reserve_mode_set(st, mode) ==
    IF mode \in 0..2
    THEN write(st, Command("RMOD", <<mode>>, <<>>))
    ELSE Raise(st, "ValueError")

\* time_constant: property, src/sr830/sr830.py 835-865
time_constant_get(st) == query_int(st, Query("OFLT", <<>>, <<>>))

\* time_constant: setter, src/sr830/sr830.py 867-902
time_constant_set(st, tc) ==
    IF tc \in 0..19
    THEN write(st, Command("OFLT", <<tc>>, <<>>))
    ELSE Raise(st, "ValueError")

\* lowpass_filter_slope: property, src/sr830/sr830.py 904-918
lowpass_filter_slope_get(st) == query_int(st, Query("OFSL", <<>>, <<>>))

\* lowpass_filter_slope: setter, src/sr830/sr830.py 920-940
lowpass_filter_slope_set(st, slope) ==
    IF slope \in 0..3
    THEN write(st, Command("OFSL", <<slope>>, <<>>))
    ELSE Raise(st, "ValueError")

\* sync_filter_status: property, src/sr830/sr830.py 942-954
sync_filter_status_get(st) == query_int(st, Query("SYNC", <<>>, <<>>))

\* sync_filter_status: setter, src/sr830/sr830.py 956-974
sync_filter_status_set(st, status) ==
    IF status \in {0, 1}
    THEN write(st, Command("SYNC", <<status>>, <<>>))
    ELSE Raise(st, "ValueError")

\* output_interface: property, src/sr830/sr830.py 978-990
output_interface_get(st) == query_int(st, Query("OUTX", <<>>, <<>>))

\* output_interface: setter, src/sr830/sr830.py 992-1013
output_interface_set(st, interface) ==
    IF interface \in {0, 1}
    THEN write(st, Command("OUTX", <<interface>>, <<>>))
    ELSE Raise(st, "ValueError")

\* key_click_state: property, src/sr830/sr830.py 1328-1340
key_click_state_get(st) == query_int(st, Query("KCLK", <<>>, <<>>))

\* key_click_state: setter, src/sr830/sr830.py 1342-1359
key_click_state_set(st, state) ==
    IF state \in {0, 1}
    THEN write(st, Command("KCLK", <<state>>, <<>>))
    ELSE Raise(st, "ValueError")

\* alarm_status: property, src/sr830/sr830.py 1361-1373
alarm_status_get(st) == query_int(st, Query("ALRM", <<>>, <<>>))

\* alarm_status: setter, src/sr830/sr830.py 1375-1392
alarm_status_set(st, status) ==
    IF status \in {0, 1}
    THEN write(st, Command("ALRM", <<status>>, <<>>))
    ELSE Raise(st, "ValueError")

\* sample_rate: property, src/sr830/sr830.py 1460-1485
sample_rate_get(st) == query_int(st, Query("SRAT", <<>>, <<>>))

\* sample_rate: setter, src/sr830/sr830.py 1487-1517
sample_rate_set(st, rate) ==
    IF rate \in 0..14
    THEN write(st, Command("SRAT", <<rate>>, <<>>))
    ELSE Raise(st, "ValueError")

\* end_of_buffer_mode: property, src/sr830/sr830.py 1519-1531
end_of_buffer_mode_get(st) == query_int(st, Query("SEND", <<>>, <<>>))

\* end_of_buffer_mode: setter, src/sr830/sr830.py 1533-1553
end_of_buffer_mode_set(st, mode) ==
    IF mode \in {0, 1}
    THEN write(st, Command("SEND", <<mode>>, <<>>))
    ELSE Raise(st, "ValueError")

\* trigger_start_mode: property, src/sr830/sr830.py 1559-1571
trigger_start_mode_get(st) == query_int(st, Query("TSTR", <<>>, <<>>))

\* trigger_start_mode: setter, src/sr830/sr830.py 1573-1591
trigger_start_mode_set(st, mode) ==
    IF mode \in {0, 1}
    THEN write(st, Command("TSTR", <<mode>>, <<>>))
    ELSE Raise(st, "ValueError")

\* data_transfer_mode: property, src/sr830/sr830.py 1960-1973
data_transfer_mode_get(st) == query_int(st, Query("FAST", <<>>, <<>>))

\* data_transfer_mode: setter, src/sr830/sr830.py 1975-1996
data_transfer_mode_set(st, mode) ==
    IF mode \in 0..2
    THEN write(st, Command("FAST", <<mode>>, <<>>))
    ELSE Raise(st, "ValueError")

\* local_mode: property, src/sr830/sr830.py 2027-2040
local_mode_get(st) == query_int(st, Query("LOCL", <<>>, <<>>))

\* local_mode: setter, src/sr830/sr830.py 2042-2061
local_mode_set(st, mode) ==
    IF mode \in 0..2
    THEN write(st, Command("LOCL", <<mode>>, <<>>))
    ELSE Raise(st, "ValueError")

\* power_on_status_clear_bit: property, src/sr830/sr830.py 2214-2223
power_on_status_clear_bit_get(st) == query_int(st, Query("*PSC", <<>>, <<>>))

\* power_on_status_clear_bit: setter, src/sr830/sr830.py 2225-2243
power_on_status_clear_bit_set(st, value) ==
    IF value \in {0, 1}
    THEN write(st, Command("*PSC", <<value>>, <<>>))
    ELSE Raise(st, "ValueError")

PropertyGet(st, p) ==
    CASE p = "reference_phase_shift" -> reference_phase_shift_get(st)
      [] p = "reference_source" -> reference_source_get(st)
      [] p = "reference_frequency" -> reference_frequency_get(st)
      [] p = "reference_trigger" -> reference_trigger_get(st)
      [] p = "harmonic" -> harmonic_get(st)
      [] p = "sine_amplitude" -> sine_amplitude_get(st)
      [] p = "input_configuration" -> input_configuration_get(st)
      [] p = "input_shield_grounding" -> input_shield_grounding_get(st)
      [] p = "input_coupling" -> input_coupling_get(st)
      [] p = "line_notch_filter_status" -> line_notch_filter_status_get(st)
      [] p = "sensitivity" -> sensitivity_get(st)
      [] p = "reserve_mode" -> reserve_mode_get(st)
      [] p = "time_constant" -> time_constant_get(st)
      [] p = "lowpass_filter_slope" -> lowpass_filter_slope_get(st)
      [] p = "sync_filter_status" -> sync_filter_status_get(st)
      [] p = "output_interface" -> output_interface_get(st)
      [] p = "key_click_state" -> key_click_state_get(st)
      [] p = "alarm_status" -> alarm_status_get(st)
      [] p = "sample_rate" -> sample_rate_get(st)
      [] p = "end_of_buffer_mode" -> end_of_buffer_mode_get(st)
      [] p = "trigger_start_mode" -> trigger_start_mode_get(st)
      [] p = "data_transfer_mode" -> data_transfer_mode_get(st)
      [] p = "local_mode" -> local_mode_get(st)
      [] p = "power_on_status_clear_bit" -> power_on_status_clear_bit_get(st)
PropertySet(st, p, v) ==
    CASE p = "reference_phase_shift" -> reference_phase_shift_set(st, v)
      [] p = "reference_source" -> reference_source_set(st, v)
      [] p = "reference_frequency" -> reference_frequency_set(st, v)
      [] p = "reference_trigger" -> reference_trigger_set(st, v)
      [] p = "harmonic" -> harmonic_set(st, v)
      [] p = "sine_amplitude" -> sine_amplitude_set(st, v)
      [] p = "input_configuration" -> input_configuration_set(st, v)
      [] p = "input_shield_grounding" -> input_shield_grounding_set(st, v)
      [] p = "input_coupling" -> input_coupling_set(st, v)
      [] p = "line_notch_filter_status" -> line_notch_filter_status_set(st, v)
      [] p = "sensitivity" -> sensitivity_set(st, v)
      [] p = "reserve_mode" -> reserve_mode_set(st, v)
      [] p = "time_constant" -> time_constant_set(st, v)
      [] p = "lowpass_filter_slope" -> lowpass_filter_slope_set(st, v)
      [] p = "sync_filter_status" -> sync_filter_status_set(st, v)
      [] p = "output_interface" -> output_interface_set(st, v)
      [] p = "key_click_state" -> key_click_state_set(st, v)
      [] p = "alarm_status" -> alarm_status_set(st, v)
      [] p = "sample_rate" -> sample_rate_set(st, v)
      [] p = "end_of_buffer_mode" -> end_of_buffer_mode_set(st, v)
      [] p = "trigger_start_mode" -> trigger_start_mode_set(st, v)
      [] p = "data_transfer_mode" -> data_transfer_mode_set(st, v)
      [] p = "local_mode" -> local_mode_set(st, v)
      [] p = "power_on_status_clear_bit" -> power_on_status_clear_bit_set(st, v)

(***************************************************************************)
(* Display, output, aux and setup operations                               *)
(***************************************************************************)

\* set_display
set_display(st, channel, display, ratio) ==
    IF (channel \in {1, 2}) /\ (display \in 0..4) /\ (ratio \in 0..2)
    THEN write(st, Command("DDEF", <<channel, display, ratio>>, <<",", " ">>))
    ELSE Raise(st, "ValueError")

\* get_display: the query is sent with write(), whose value (a byte count)
\* has no split()
get_display(st, channel) ==
    IF channel \in {0, 1}
    THEN Result(st, "AttributeError", <<>>, <<Query("DDEF", <<channel>>, <<>>)>>)
    ELSE Raise(st, "ValueError")

\* set_front_output
set_front_output(st, channel, output) ==
    IF (channel \in {0, 1}) /\ (output \in {0, 1})
    THEN write(st, Command("FPOP", <<channel, output>>, <<",", " ">>))
    ELSE Raise(st, "ValueError")

\* get_front_output
get_front_output(st, channel) ==
    IF channel \in {0, 1}
    THEN query_int(st, Query("FPOP", <<channel>>, <<>>))
    ELSE Raise(st, "ValueError")

\* set_output_offset_expand
set_output_offset_expand(st, parameter, offset, expand) ==
    IF (parameter \in {1, 2, 3}) /\ (offset >= -105) /\ (offset <= 105)
        /\ (expand \in 0..2)
    THEN write(st, Command("OEXP", <<parameter, offset, expand>>, <<",", " ">>))
    ELSE Raise(st, "ValueError")

\* get_output_offset_expand
get_output_offset_expand(st, parameter) ==
    IF parameter \in 0..2
    THEN query_pair(st, Query("OEXP", <<parameter>>, <<>>))
    ELSE Raise(st, "ValueError")

\* auto_offset
auto_offset(st, parameter) ==
    IF parameter \in 0..2
    THEN write(st, Command("AOFF", <<parameter>>, <<>>))
    ELSE Raise(st, "ValueError")

\* get_aux_in
get_aux_in(st, aux_in) ==
    IF aux_in \in {1, 2, 3, 4}
    THEN query_float(st, Query("OAUX", <<aux_in>>, <<>>))
    ELSE Raise(st, "ValueError")

\* set_aux_out: voltage in tenths of a volt
set_aux_out(st, aux_out, voltage) ==
    IF (aux_out \in {1, 2, 3, 4}) /\ (voltage >= -105) /\ (voltage <= 105)
    THEN write(st, Command("AUXV", <<aux_out, voltage>>, <<",", " ">>))
    ELSE Raise(st, "ValueError")

\* get_aux_out
get_aux_out(st, aux_out) ==
    IF aux_out \in {1, 2, 3, 4}
    THEN query_float(st, Query("AUXV", <<aux_out>>, <<>>))
    ELSE Raise(st, "ValueError")

\* save_setup
save_setup(st, number) ==
    IF number \in 1..9
    THEN write(st, Command("SSET", <<number>>, <<>>))
    ELSE Raise(st, "ValueError")

\* recall_setup
recall_setup(st, number) ==
    IF number \in 1..9
    THEN write(st, Command("RSET", <<number>>, <<>>))
    ELSE Raise(st, "ValueError")

\* read_display
read_display(st, channel) ==
    IF channel \in {0, 1}
    THEN query_float(st, Query("OUTR", <<channel>>, <<>>))
    ELSE Raise(st, "ValueError")

\* gpib_override_remote, getter: int(self.instr.write("OVRM?")).  write()
\* returns the number of bytes written (the message and its termination of
\* up to two characters) or, in older PyVISA releases, a (count, status)
\* tuple that int() rejects.
gpib_override_remote_get(st) ==
    LET msg == Query("OVRM", <<>>, <<>>)
    IN  {Result(st, "ok", <<MessageLen(msg) + t>>, <<msg>>) : t \in 0..2}
            \cup {Result(st, "TypeError", <<>>, <<msg>>)}

\* gpib_override_remote, setter
gpib_override_remote_set(st, condition) ==
    IF condition \in {0, 1}
    THEN write(st, Command("OVRM", <<condition>>, <<>>))
    ELSE Raise(st, "ValueError")

(***************************************************************************)
(* Status reporting                                                        *)
(***************************************************************************)

_enable_register_cmd_dict ==
    [standard_event |-> "*ESE", serial_poll |-> "*SRE", error |-> "ERRE",
     lia_status |-> "LIAE"]

_status_byte_cmd_dict ==
    [standard_event |-> "*ESR", serial_poll |-> "*STB", error |-> "ERRS",
     lia_status |-> "LIAS"]

\* An optional argument left at its default.
None == <<>>

\* set_enable_register writing every register with the standard event
\* enable command.
set_enable_register_one_cmd(st, register, value, decimal, bit) ==
    IF register \in DOMAIN _enable_register_cmd_dict
    THEN IF decimal = TRUE
         THEN IF (value >= 0) /\ (value <= 255)
              THEN write(st, Command("*ESE", <<value>>, <<>>))
              ELSE Raise(st, "ValueError")
         ELSE IF bit = None THEN Raise(st, "TypeError")
              ELSE IF (bit[1] >= 0) /\ (bit[1] <= 7)
                      /\ ((value = 0) \/ (value = 1))
              THEN write(st, Command("*ESE", <<bit[1], value>>, <<",">>))
              ELSE Raise(st, "ValueError")
    ELSE Raise(st, "ValueError")

\* set_enable_register.  bit is None or <<b>>; comparing None with a number
\* raises TypeError.
set_enable_register(st, register, value, decimal, bit) ==
    IF register \in DOMAIN _enable_register_cmd_dict
    THEN IF decimal = TRUE
         THEN IF (value >= 0) /\ (value <= 255)
              THEN write(st, Command(_enable_register_cmd_dict[register],
                                     <<value>>, <<>>))
              ELSE Raise(st, "ValueError")
         ELSE IF bit = None THEN Raise(st, "TypeError")
              ELSE IF (bit[1] >= 0) /\ (bit[1] <= 7)
                      /\ ((value = 0) \/ (value = 1))
              THEN write(st, Command(_enable_register_cmd_dict[register],
                                     <<bit[1], value>>, <<",">>))
              ELSE Raise(st, "ValueError")
    ELSE Raise(st, "ValueError")

\* get_enable_register
get_enable_register(st, register, bit) ==
    IF register \in DOMAIN _enable_register_cmd_dict
    THEN IF bit = None
         THEN query_int(st, Query(_enable_register_cmd_dict[register], <<>>, <<>>))
         ELSE IF (bit[1] >= 0) /\ (bit[1] <= 7)
              THEN query_int(st, Query(_enable_register_cmd_dict[register],
                                       <<bit[1]>>, <<>>))
              ELSE Raise(st, "ValueError")
    ELSE Raise(st, "ValueError")

\* get_status_byte
get_status_byte(st, status_byte, bit) ==
    IF status_byte \in DOMAIN _status_byte_cmd_dict
    THEN IF bit = None
         THEN query_int(st, Query(_status_byte_cmd_dict[status_byte], <<>>, <<>>))
         ELSE IF (bit[1] >= 0) /\ (bit[1] <= 7)
              THEN query_int(st, Query(_status_byte_cmd_dict[status_byte],
                                       <<bit[1]>>, <<>>))
              ELSE Raise(st, "ValueError")
    ELSE Raise(st, "ValueError")

\* self.set_enable_register(register, 255, decimal=True) as the next
\* statement after those that gave r
enable_next(r, register) ==
    Then(r, set_enable_register(r.store, register, 255, TRUE, None))

\* enable_all_status_bytes leaving out the last register.
enable_all_status_bytes_three(st) ==
    enable_next(
        enable_next(
            set_enable_register(st, "standard_event", 255, TRUE, None),
            "serial_poll"),
        "error")

\* enable_all_status_bytes: the four registers in order, each set to 255
enable_all_status_bytes(st) ==
    enable_next(
        enable_next(
            enable_next(
                set_enable_register(st, "standard_event", 255, TRUE, None),
                "serial_poll"),
            "error"),
        "lia_status")

\* connect: self.enable_all_status_bytes() as the next statement
enable_all_next(r) == Then(r, enable_all_status_bytes(r.store))

\* connect: the local mode as the next statement
local_mode_next(r, local_lockout) ==
    Then(r, IF local_lockout = TRUE
            THEN local_mode_set(r.store, 2)
            ELSE local_mode_set(r.store, 1))

\* connect locking the front panel whatever local_lockout is.
connect_configure_lockout(st, output_interface, local_lockout) ==
    local_mode_next(
        enable_all_next(output_interface_set(st, output_interface)),
        TRUE)

\* connect, after the resource is open and the optional reset has returned:
\* the output interface, the enable registers, the local mode
connect_configure(st, output_interface, local_lockout) ==
    local_mode_next(
        enable_all_next(output_interface_set(st, output_interface)),
        local_lockout)

(***************************************************************************)
(* Data storage and data transfer                                          *)
(***************************************************************************)

\* pause writing its command twice.
pause_twice(st) ==
    Result(InstrWrite(st, <<"PAUS">>), "ok", <<>>, <<<<"PAUS">>, <<"PAUS">>>>)

\* pause
pause(st) == write(st, <<"PAUS">>)

\* start sending STRT whatever the mode read.
start_next_strt(r) ==
    IF r.outcome # "ok" THEN r
    ELSE Then(r, write(r.store, <<"STRT">>))

\* start, r the result of reading data_transfer_mode: STRT when fast data
\* transfer is off, STRD otherwise
start_next(r) ==
    IF r.outcome # "ok" THEN r
    ELSE IF r.ret = <<0>>
    THEN Then(r, write(r.store, <<"STRT">>))
    ELSE Then(r, write(r.store, <<"STRD">>))

\* start
start(st) == start_next(data_transfer_mode_get(st))

\* reset_data_buffers
reset_data_buffers(st) == write(st, <<"REST">>)

\* buffer_size
buffer_size_get(st) == query_int(st, <<"SPTS", "?">>)

\* The argument test of the buffer reads: get_ascii_buffer_data tests the
\* channel against range(3), the two binary reads against [1, 2].
buffer_args_ok(op, channel, start_bin, bins) ==
    IF op = "get_ascii_buffer_data"
    THEN (channel \in 0..2) /\ (start_bin \in 0..16382) /\ (bins \in 1..16383)
    ELSE (channel \in {1, 2}) /\ (start_bin >= 0) /\ (start_bin <= 16382)
            /\ (bins >= 1) /\ (bins <= 16383)

\* self.output_interfaces[self.output_interface], r the result of reading
\* the property: the tuple has two entries
output_interface_name(r) ==
    IF r.outcome # "ok" THEN r
    ELSE IF r.ret[1] \notin -2..1
    THEN Result(r.store, "IndexError", <<>>, r.sent)
    ELSE r

\* The buffer mode read without the pause that follows.
pause_if_loop_never(r) ==
    IF r.outcome # "ok" THEN r
    ELSE IF r.ret[1] \notin -2..1
    THEN Result(r.store, "IndexError", <<>>, r.sent)
    ELSE IF r.ret[1] \in {1, -1}
    THEN Result(r.store, "ok", <<1>>, r.sent)
    ELSE Result(r.store, "ok", <<0>>, r.sent)

\* buffer_mode = self.end_of_buffer_modes[self.end_of_buffer_mode] and the
\* pause that follows when it is "Loop", r the result of reading the
\* property.  The result returns 1 for Loop and 0 otherwise.
pause_if_loop(r) ==
    IF r.outcome # "ok" THEN r
    ELSE IF r.ret[1] \notin -2..1
    THEN Result(r.store, "IndexError", <<>>, r.sent)
    ELSE IF r.ret[1] \in {1, -1}
    THEN Result(InstrWrite(r.store, <<"PAUS">>), "ok", <<1>>,
                r.sent \o <<<<"PAUS">>>>)
    ELSE Result(r.store, "ok", <<0>>, r.sent)

\* The buffer mode and the pause as the statements after those that gave r.
mode_next(r) == Then(r, pause_if_loop(end_of_buffer_mode_get(r.store)))

\* A buffer read up to the query of the trace: the argument test, the
\* output interface (binary reads), the buffer mode and the pause.
get_buffer_begin(st, op, channel, start_bin, bins) ==
    IF ~buffer_args_ok(op, channel, start_bin, bins)
    THEN Raise(st, "ValueError")
    ELSE IF op = "get_ascii_buffer_data"
    THEN pause_if_loop(end_of_buffer_mode_get(st))
    ELSE mode_next(output_interface_name(output_interface_get(st)))

\* The two bytes of a signed 16-bit word, least significant first.
WordBytes(w) == <<(w % 65536) % 256, (w % 65536) \div 256>>

RECURSIVE BytesOf(_)
BytesOf(words) ==
    IF words = <<>> THEN <<>>
    ELSE WordBytes(Head(words)) \o BytesOf(Tail(words))

\* The instrument answers a binary trace query with the bytes of the points
\* (TRCL) or their values (TRCB), or with nothing.
InstrBinary(st, m, a) ==
    IF ~InTrace(st, a) THEN NoResponse
    ELSE IF m = "TRCL" THEN BytesOf(TraceWords(st, a[1], a[2], a[3]))
    ELSE IF m = "TRCB" THEN Trace(st, a[1], a[2], a[3])
    ELSE NoResponse

\* The word of two bytes read as unsigned.
Int16LE_unsigned(lo, hi) == lo + 256 * hi

\* datatype="h", is_big_endian=False: the signed word of two bytes
Int16LE(lo, hi) ==
    IF lo + 256 * hi >= 32768 THEN lo + 256 * hi - 65536 ELSE lo + 256 * hi

\* query_binary_values(..., datatype="h", data_points=n): n words
Unpack(bytes, n) == [i \in 1..n |-> Int16LE(bytes[2 * i - 1], bytes[2 * i])]

\* buffer[::2], buffer[1::2] and [m * 2 ** (e - 124) for m, e in zip(...)]
Decode(buffer) ==
    [i \in 1..(Len(buffer) \div 2) |->
        buffer[2 * i - 1] * Pow2(buffer[2 * i] - 124)]

\* query_ascii_values(msg, converter=lambda x: x, container=list) and
\* tuple([float(x) for x in buffer]) of the answer resp
ascii_values(st, msg, resp) ==
    IF resp = NoResponse THEN Result(st, "VisaIOError", <<>>, <<msg>>)
    ELSE IF ~AllIntText(Split(resp, ","))
    THEN Result(st, "ValueError", <<>>, <<msg>>)
    ELSE Result(st, "ok", ParseAll(Split(resp, ",")), <<msg>>)

\* query_binary_values(msg, datatype="f", data_points=bins) of the answer
binary_values(st, msg, resp, bins) ==
    IF resp = NoResponse \/ Len(resp) < bins
    THEN Result(st, "VisaIOError", <<>>, <<msg>>)
    ELSE Result(st, "ok", SubSeq(resp, 1, bins), <<msg>>)

\* query_binary_values(msg, datatype="h", is_big_endian=False,
\* data_points=2 * bins) of the answer, and its conversion
non_norm_values(st, msg, resp, bins) ==
    IF resp = NoResponse \/ Len(resp) < 4 * bins
    THEN Result(st, "VisaIOError", <<>>, <<msg>>)
    ELSE Result(st, "ok", Decode(Unpack(resp, 2 * bins)), <<msg>>)

\* The query of the trace and the conversion of its answer.
trace_query(st, op, channel, start_bin, bins) ==
    IF op = "get_ascii_buffer_data"
    THEN ascii_values(st, Query("TRCA", <<channel, start_bin, bins>>, <<",">>),
             InstrQuery(st, Query("TRCA", <<channel, start_bin, bins>>, <<",">>)))
    ELSE IF op = "get_binary_buffer_data"
    THEN binary_values(st, Query("TRCB", <<channel, start_bin, bins>>, <<",">>),
             InstrBinary(st, "TRCB", <<channel, start_bin, bins>>), bins)
    ELSE non_norm_values(st, Query("TRCL", <<channel, start_bin, bins>>, <<",">>),
             InstrBinary(st, "TRCL", <<channel, start_bin, bins>>), bins)

\* The result of r2 after q, returning what q returned.
Keep(q, r2) == Result(r2.store, r2.outcome, q.ret, q.sent \o r2.sent)

\* The restart written in a finally clause: SEND 1 is written whether the
\* query has failed or not.
restart_loop_finally(q, loop) ==
    IF loop # 1 THEN q
    ELSE Result(end_of_buffer_mode_set(q.store, 1).store, q.outcome, q.ret,
                q.sent \o end_of_buffer_mode_set(q.store, 1).sent)

\* if buffer_mode == "Loop": self.end_of_buffer_mode = 1, and return buffer:
\* q the result of the query, loop 1 when the mode was Loop
restart_loop(q, loop) ==
    IF q.outcome # "ok" \/ loop # 1 THEN q
    ELSE Keep(q, end_of_buffer_mode_set(q.store, 1))

\* A buffer read from the query of the trace on.
get_buffer_end(st, op, channel, start_bin, bins, loop) ==
    restart_loop(trace_query(st, op, channel, start_bin, bins), loop)

\* A generator object: what it yields when it is consumed.
Generator(values) == <<values>>

\* (float(i) for i in resp.split(",")) of the answer to msg: the call
\* returns the generator, and the conversions run when it is consumed
floats_of(st, msg, resp) ==
    IF resp = NoResponse THEN Result(st, "VisaIOError", <<>>, <<msg>>)
    ELSE Result(st, "ok", Generator(Split(resp, ",")), <<msg>>)

\* measure_multiple
measure_multiple(st, parameters) ==
    IF (\A i \in 1..Len(parameters) : parameters[i] \in 1..11)
          /\ (Len(parameters) \in 2..6)
    THEN floats_of(st, Query("SNAP", parameters, <<",">>),
                   InstrQuery(st, Query("SNAP", parameters, <<",">>)))
    ELSE Raise(st, "ValueError")

(***************************************************************************)
(* The errors property                                                     *)
(***************************************************************************)

\* format(n, "b"): the binary digits of n, the most significant first
RECURSIVE Bin(_)
Bin(n) ==
    IF n < 2 THEN <<Digits[n + 1]>>
    ELSE Bin(n \div 2) \o <<Digits[(n % 2) + 1]>>

\* Descriptions of the events of each status byte, by index.
_serial_poll_status_byte ==
    <<"No scan in progress", "No command execution in progress",
      "An enabled bit in error status byte has been set",
      "An enabled bit in LIA status byte has been set",
      "Interface output buffer is non-empty",
      "An enabled bit in standard status byte has been set",
      "A service request has occured", "">>

_standard_event_status_byte ==
    <<"Input queue overflow", "", "Output queue overflow", "",
      "Command cannot execute/parameter out of range",
      "Received illegal command", "Key pressed/knob rotated", "Power-on">>

_lia_status_byte ==
    <<"Input or amplifier overload", "Time constant filter overload",
      "Output overload", "Reference unlock detected",
      "Detection frequency switched range",
      "Time constant changed indirectly", "Data storage triggered", "">>

_error_status_byte ==
    <<"", "Battery backup has failed", "RAM memory test found error", "",
      "ROM memory test found error", "GPIB fast data transfer mode aborted",
      "DSP test found error", "Internal math error">>

\* for i, bit in enumerate(s): if bit == "1": errors.append(texts[i][1])
Flagged(s, texts) ==
    LET F[i \in 0..Len(s)] ==
            IF i = 0 THEN <<>>
            ELSE F[i - 1] \o (IF s[i] = "1" THEN <<texts[i]>> ELSE <<>>)
    IN F[Len(s)]

\* s[:n]
Prefix(s, n) == SubSeq(s, 1, IF Len(s) < n THEN Len(s) ELSE n)

\* The digits of a status byte that are looked at, with the others as "0":
\* all of the error status byte, lsb[:4], and the sesb_error_bits 0, 2, 4
\* and 5.
Looked(kind, s) ==
    IF kind = "error" THEN s
    ELSE IF kind = "lia_status" THEN Prefix(s, 4)
    ELSE <<s[1], "0", s[3], "0", s[5], s[6]>>

StatusTexts(kind) ==
    IF kind = "error" THEN _error_status_byte
    ELSE IF kind = "lia_status" THEN _lia_status_byte
    ELSE _standard_event_status_byte

\* An index past the end of a string, after the statements that gave e.
IndexError(e, sent) == Result(e.store, "IndexError", <<>>, sent)

\* The errors of one status byte appended to those found so far: e the
\* result so far, q the result of reading the byte and s its digits.
\* sesb[5] is read of a string that may have fewer than six digits.
status_errors(e, q, kind, s) ==
    IF kind = "standard_event" /\ Len(s) < 6
    THEN IndexError(q, e.sent \o q.sent)
    ELSE Result(q.store, "ok", e.ret \o Flagged(Looked(kind, s), StatusTexts(kind)),
                e.sent \o q.sent)

\* The answer to the status byte query, when it was read.
status_read(e, q, kind) ==
    IF q.outcome # "ok" THEN Result(q.store, q.outcome, <<>>, e.sent \o q.sent)
    ELSE status_errors(e, q, kind, Bin(q.ret[1]))

\* if sp[i] == "1": read the status byte and append its errors
errors_step(e, sp, i, kind) ==
    IF e.outcome # "ok" \/ sp[i + 1] # "1" THEN e
    ELSE status_read(e, get_status_byte(e.store, kind, None), kind)

\* if sp[5] == "1": sp may have only five digits
errors_standard(e, sp) ==
    IF e.outcome # "ok" THEN e
    ELSE IF Len(sp) < 6 THEN IndexError(e, e.sent)
    ELSE errors_step(e, sp, 5, "standard_event")

\* The statements after sp = format(sp, "b"): sp[4] is read first, of a
\* string that has as many digits as the value needs.
errors_bits(r, sp) ==
    IF Len(sp) < 5 THEN IndexError(r, r.sent)
    ELSE errors_standard(
             errors_step(
                 errors_step(
                     Result(r.store, "ok",
                            IF sp[5] = "1" THEN <<_serial_poll_status_byte[5]>>
                            ELSE <<>>,
                            r.sent),
                     sp, 2, "error"),
                 sp, 3, "lia_status"),
             sp)

errors_from(r) ==
    IF r.outcome # "ok" THEN r ELSE errors_bits(r, Bin(r.ret[1]))

\* errors
errors(st) == errors_from(get_status_byte(st, "serial_poll", None))

(***************************************************************************)
(* The virtual instrument (virtual_sr830): every method returns a literal  *)
(* without talking to any resource.                                        *)
(***************************************************************************)

\* Values returned: the type and the items, a number m * 10^e being <<m, e>>.
PyInt(n) == [type |-> "int", items |-> <<<<n, 0>>>>]

PyFloat(m, e) == [type |-> "float", items |-> <<<<m, e>>>>]

PyDict == [type |-> "dict", items |-> <<>>]

PyTuple(items) == [type |-> "tuple", items |-> items]

PyList(items) == [type |-> "list", items |-> items]

\* (x for i in s): the generator object, with what it yields when consumed
PyGenerator(x, n) == [type |-> "generator", items |-> [i \in 1..n |-> x]]

\* Methods whose body is pass, or a docstring alone.
VirtualPass ==
    {"disconnect", "set_configuration", "enable_all_status_bytes",
     "error_check", "set_ref_phase_shift", "set_ref_source", "set_ref_freq",
     "set_reference_trigger", "set_harmonic", "set_sine_amplitude",
     "set_input_configuration", "set_input_shield_gnd", "set_input_coupling",
     "set_line_notch_status", "set_sensitivity", "set_reserve_mode",
     "set_time_constant", "set_lp_filter_slope", "set_sync_status",
     "set_display", "set_front_output", "auto_offset", "set_aux_out",
     "set_output_interface", "set_remote_status", "set_key_click_state",
     "set_alarm", "save_setup", "recall_setup", "auto_gain", "auto_reserve",
     "auto_phase", "set_sample_rate", "set_end_of_buffer_mode", "trigger",
     "set_trigger_start_mode", "start", "pause", "reset_data_buffers",
     "set_data_transfer_mode", "start_scan", "reset", "set_local_mode",
     "set_gpib_overide_remote", "clear_status_registers",
     "set_enable_register", "set_power_on_status_clear_bit"}

\* Methods ending in return 0.
VirtualZero ==
    {"get_ref_source", "get_reference_trigger", "get_harmonic",
     "get_input_configuration", "get_input_shield_gnd", "get_input_coupling",
     "get_line_notch_status", "get_reserve_mode", "get_time_constant",
     "get_low_pass_filter_slope", "get_sync_status", "get_front_output",
     "set_output_offset_expand", "get_output_offset_expand", "get_aux_in",
     "get_aux_out", "get_output_interface", "get_key_click_state",
     "get_alarm", "get_sample_rate", "get_end_of_buffer_mode",
     "get_trigger_start_mode", "get_buffer_size", "get_data_transfer_mode",
     "get_local_mode", "get_gpib_overide_remote", "get_enable_register",
     "get_status_byte", "get_power_on_status_clear_bit"}

\* Methods ending in return 0.0.
VirtualZeroFloat ==
    {"get_ref_phase_shift", "get_ref_freq", "get_sine_amplitude",
     "read_display", "read_aux_in"}

\* Methods ending in return (0.0 for i in range(bins)).
VirtualBuffer ==
    {"get_ascii_buffer_data", "get_binary_buffer_data",
     "get_non_norm_buffer_data"}

VirtualMethods ==
    VirtualPass \cup VirtualZero \cup VirtualZeroFloat \cup VirtualBuffer
        \cup {"get_configuration", "get_sensitivity", "get_display",
              "measure", "measure_multiple", "get_id"}

\* len(range(bins))
RangeLen(bins) == IF bins < 0 THEN 0 ELSE bins

\* What a method returns: <<>> when it returns nothing, <<v>> otherwise.
virtual_return(method, args) ==
    IF method \in VirtualPass THEN <<>>
    ELSE IF method \in VirtualZero THEN <<PyInt(0)>>
    ELSE IF method \in VirtualZeroFloat THEN <<PyFloat(0, 0)>>
    ELSE IF method \in VirtualBuffer
    THEN <<PyGenerator(<<0, 0>>, RangeLen(args[3]))>>
    ELSE IF method = "get_configuration" THEN <<PyDict>>
    ELSE IF method = "get_sensitivity" THEN <<PyFloat(1, -6)>>
    ELSE IF method = "get_display" THEN <<PyTuple(<<<<0, 0>>, <<0, 0>>>>)>>
    ELSE IF method = "measure" THEN <<PyFloat(5, -7)>>
    ELSE IF method = "measure_multiple"
    THEN <<PyGenerator(<<1, 0>>, Len(args[1]))>>
    ELSE <<PyList(<<"Stanford_Research_Systems", "SR830", "Virtual", "ver0">>)>>

(***************************************************************************)
(* The module sr830.py at the root of the repository: methods in place of  *)
(* properties, and a constructor taking return_int.                        *)
(***************************************************************************)

\* The getters that look the instrument's integer up in a class tuple: the
\* query, the tuple and its length.
RootGetters ==
    [get_ref_source |-> <<"FMOD", "reference_sources", 2>>,
     get_reference_trigger |-> <<"RSLP", "triggers", 3>>,
     get_input_configuration |-> <<"ISRC", "input_configurations", 4>>,
     get_input_coupling |-> <<"ICPL", "input_couplings", 2>>,
     get_sensitivity |-> <<"SENS", "sensitivities", 27>>,
     get_reserve_mode |-> <<"RMOD", "reserve_modes", 3>>,
     get_time_constant |-> <<"OFLT", "time_constants", 20>>,
     get_lp_filter_slope |-> <<"OFSL", "low_pass_filter_slopes", 4>>,
     get_output_interface |-> <<"OUTX", "communication_interfaces", 2>>,
     get_key_click_state |-> <<"KCLK", "key_click_states", 2>>,
     get_alarm |-> <<"ALRM", "alarm_statuses", 2>>,
     get_sample_rate |-> <<"SRAT", "sample_rates", 15>>,
     get_end_of_buffer_mode |-> <<"SEND", "end_of_buffer_modes", 2>>,
     get_trigger_start_mode |-> <<"TSTR", "trigger_start_modes", 2>>,
     get_data_transfer_mode |-> <<"FAST", "data_transfer_modes", 3>>,
     get_local_mode |-> <<"LOCL", "local_modes", 3>>]

\* A value a getter returns: the entry at an index of a class tuple, or an
\* integer.
TupleEntry(table, index) == <<table, index>>

IntValue(n) == <<"int", n>>

\* table[i]: a negative index counts from the end, and an index outside
\* the tuple raises IndexError.  r the result of int(self.instr.query(cmd)),
\* g the getter's row.
root_lookup(r, g) ==
    IF r.outcome # "ok" THEN r
    ELSE IF r.ret[1] >= g[3] \/ r.ret[1] < -g[3]
    THEN Result(r.store, "IndexError", <<>>, r.sent)
    ELSE Result(r.store, "ok", <<TupleEntry(g[2], r.ret[1] % g[3])>>, r.sent)

\* get_ref_source and the getters like it, on an object constructed with
\* return_int: no method reads self.return_int.
root_get(return_int, st, name) ==
    root_lookup(query_int(st, Query(RootGetters[name][1], <<>>, <<>>)),
                RootGetters[name])

\* set_ref_source and the setters like it: the command is written with the
\* value as given.
root_set(st, name, value) ==
    write(st, Command(RootGetters[name][1], <<value>>, <<>>))

\* _add_idn: idn.split(",") and its first four fields
root_add_idn(st, msg, resp, f) ==
    IF resp = NoResponse THEN Result(st, "VisaIOError", <<>>, <<msg>>)
    ELSE IF Len(f) < 4 THEN Result(st, "IndexError", <<>>, <<msg>>)
    ELSE Result(st, "ok", <<>>, <<msg>>)

root_idn_next(r) ==
    Then(r, root_add_idn(r.store, <<"*IDN", "?">>,
                         InstrQuery(r.store, <<"*IDN", "?">>),
                         Split(InstrQuery(r.store, <<"*IDN", "?">>), ",")))

root_local_next(r) == Then(r, write(r.store, Command("LOCL", <<1>>, <<>>)))

\* connect, after the resource is opened
root_connect(st, output_interface) ==
    root_idn_next(
        root_local_next(write(st, Command("OUTX", <<output_interface>>, <<>>))))
(***************************************************************************)
(* The state machine: one action per public call                           *)
(***************************************************************************)

Call(op, name, args, flags, bit, outcome, ret, sent) ==
    [op |-> op, name |-> name, args |-> args, flags |-> flags, bit |-> bit,
     outcome |-> outcome, ret |-> ret, sent |-> sent]

NoPend == [op |-> "none", output_interface |-> 0, local_lockout |-> FALSE]

Init ==
    /\ instr = "None"
    /\ opened = <<>>
    /\ store = PowerOn
    /\ pc = "idle"
    /\ pend = NoPend
    /\ call = Call("none", "", <<>>, <<>>, None, "ok", <<>>, <<>>)
    /\ ops = 0

\* What a call that reaches self.instr does when there is no open resource:
\* None has no write or query, and a closed resource has no valid session.
NoResource == IF instr = "None" THEN "AttributeError" ELSE "InvalidSession"

\* The result of a call on the resource as it is: a call that reaches
\* self.instr without an open resource raises there.
OnResource(r) ==
    IF instr # "open" /\ r.sent # <<>> THEN Raise(store, NoResource) ELSE r

\* A public call runs to its end in one step with result e.
Returns(op, name, args, flags, bit, e) ==
    /\ ops < MaxOps
    /\ ops' = ops + 1
    /\ store' = e.store
    /\ call' = Call(op, name, args, flags, bit, e.outcome, e.ret, e.sent)
    /\ UNCHANGED <<instr, opened, pc, pend>>

Public(op, name, args, flags, bit, r) ==
    Returns(op, name, args, flags, bit, OnResource(r))

SetProperty(p, v) ==
    /\ pc = "idle"
    /\ Public("set", p, <<v>>, <<>>, None, PropertySet(store, p, v))

GetProperty(p) ==
    /\ pc = "idle"
    /\ Public("get", p, <<>>, <<>>, None, PropertyGet(store, p))

SetGpibOverrideRemote(c) ==
    /\ pc = "idle"
    /\ Public("set", "gpib_override_remote", <<c>>, <<>>, None,
           gpib_override_remote_set(store, c))

GetGpibOverrideRemote ==
    /\ pc = "idle"
    /\ \E r \in gpib_override_remote_get(store) :
           Public("get", "gpib_override_remote", <<>>, <<>>, None, r)

SetDisplay(channel, display, ratio) ==
    /\ pc = "idle"
    /\ Public("set_display", "", <<channel, display, ratio>>, <<>>, None,
           set_display(store, channel, display, ratio))

GetDisplay(channel) ==
    /\ pc = "idle"
    /\ Public("get_display", "", <<channel>>, <<>>, None, get_display(store, channel))

SetFrontOutput(channel, output) ==
    /\ pc = "idle"
    /\ Public("set_front_output", "", <<channel, output>>, <<>>, None,
           set_front_output(store, channel, output))

GetFrontOutput(channel) ==
    /\ pc = "idle"
    /\ Public("get_front_output", "", <<channel>>, <<>>, None,
           get_front_output(store, channel))

SetOutputOffsetExpand(parameter, offset, expand) ==
    /\ pc = "idle"
    /\ Public("set_output_offset_expand", "", <<parameter, offset, expand>>, <<>>,
           None, set_output_offset_expand(store, parameter, offset, expand))

GetOutputOffsetExpand(parameter) ==
    /\ pc = "idle"
    /\ Public("get_output_offset_expand", "", <<parameter>>, <<>>, None,
           get_output_offset_expand(store, parameter))

AutoOffset(parameter) ==
    /\ pc = "idle"
    /\ Public("auto_offset", "", <<parameter>>, <<>>, None,
           auto_offset(store, parameter))

GetAuxIn(aux_in) ==
    /\ pc = "idle"
    /\ Public("get_aux_in", "", <<aux_in>>, <<>>, None, get_aux_in(store, aux_in))

SetAuxOut(aux_out, voltage) ==
    /\ pc = "idle"
    /\ Public("set_aux_out", "", <<aux_out, voltage>>, <<>>, None,
           set_aux_out(store, aux_out, voltage))

GetAuxOut(aux_out) ==
    /\ pc = "idle"
    /\ Public("get_aux_out", "", <<aux_out>>, <<>>, None, get_aux_out(store, aux_out))

SaveSetup(number) ==
    /\ pc = "idle"
    /\ Public("save_setup", "", <<number>>, <<>>, None, save_setup(store, number))

RecallSetup(number) ==
    /\ pc = "idle"
    /\ Public("recall_setup", "", <<number>>, <<>>, None, recall_setup(store, number))

ReadDisplay(channel) ==
    /\ pc = "idle"
    /\ Public("read_display", "", <<channel>>, <<>>, None, read_display(store, channel))

SetEnableRegister(register, value, decimal, bit) ==
    /\ pc = "idle"
    /\ Public("set_enable_register", register, <<value>>, <<decimal>>, bit,
           set_enable_register(store, register, value, decimal, bit))

GetEnableRegister(register, bit) ==
    /\ pc = "idle"
    /\ Public("get_enable_register", register, <<>>, <<>>, bit,
           get_enable_register(store, register, bit))

GetStatusByte(status_byte, bit) ==
    /\ pc = "idle"
    /\ Public("get_status_byte", status_byte, <<>>, <<>>, bit,
           get_status_byte(store, status_byte, bit))

EnableAllStatusBytes ==
    /\ pc = "idle"
    /\ Public("enable_all_status_bytes", "", <<>>, <<>>, None,
           enable_all_status_bytes(store))

RST == <<"*RST">>

\* connect without reset returns with result r.
ConnectEnd(output_interface, reset, local_lockout, r) ==
    /\ store' = r.store
    /\ call' = Call("connect", "", <<output_interface>>, <<reset, local_lockout>>,
                    None, r.outcome, r.ret, r.sent)
    /\ UNCHANGED <<pc, pend>>

\* connect: open the resource; with reset, write *RST and start polling,
\* otherwise configure at once.
Connect(output_interface, reset, local_lockout) ==
    /\ pc = "idle"
    /\ ops < MaxOps
    /\ ops' = ops + 1
    /\ instr' = "open"
    /\ opened' = Append(opened, "open")
    /\ IF reset = TRUE
       THEN /\ \E clear \in BOOLEAN : store' = InstrReset(store, clear)
            /\ pc' = "reset"
            /\ pend' = [op |-> "connect", output_interface |-> output_interface,
                        local_lockout |-> local_lockout]
            /\ call' = Call("connect", "", <<output_interface>>,
                            <<reset, local_lockout>>, None, "running", <<>>,
                            <<RST>>)
       ELSE ConnectEnd(output_interface, reset, local_lockout,
                       connect_configure(store, output_interface, local_lockout))

\* reset: write *RST and start polling
Reset ==
    /\ pc = "idle"
    /\ ops < MaxOps
    /\ ops' = ops + 1
    /\ IF instr = "open"
       THEN /\ \E clear \in BOOLEAN : store' = InstrReset(store, clear)
            /\ pc' = "reset"
            /\ call' = Call("reset", "", <<>>, <<>>, None, "running", <<>>, <<RST>>)
       ELSE /\ call' = Call("reset", "", <<>>, <<>>, None, NoResource, <<>>, <<>>)
            /\ UNCHANGED <<store, pc>>
    /\ UNCHANGED <<instr, opened, pend>>

\* The polling loop of reset ends with result r: reset returns, and with
\* it connect when connect called it.
PollEnd(r) ==
    /\ store' = r.store
    /\ call' = [call EXCEPT !.outcome = r.outcome, !.sent = call.sent \o r.sent]
    /\ pc' = "idle"
    /\ pend' = NoPend
    /\ UNCHANGED <<instr, opened, ops>>

\* What follows a poll q that ended the loop.
AfterReset(q) ==
    IF q.outcome # "ok" THEN q
    ELSE IF pend.op = "connect"
    THEN Then(q, connect_configure(store, pend.output_interface,
                                   pend.local_lockout))
    ELSE Result(store, "ok", <<>>, q.sent)

\* The loop ending on bit 1 read as 0.
Poll_until_zero(q) ==
    IF q.outcome = "ok" /\ q.ret # <<0>>
    THEN UNCHANGED vars
    ELSE PollEnd(AfterReset(q))

\* One poll q of the loop: on bit 1 read as 1 the loop ends.
Poll(q) ==
    IF q.outcome = "ok" /\ q.ret # <<1>>
    THEN UNCHANGED vars
    ELSE PollEnd(AfterReset(q))

\* One turn of reset's polling loop: read bit 1 of the serial poll status
\* byte.
ResetPoll ==
    /\ pc = "reset"
    /\ Poll(get_status_byte(store, "serial_poll", <<1>>))

\* The turn of the polling loop that ends it: the instrument reports bit 1
\* as 1 and the loop is left.
ResetPollReturns ==
    /\ pc = "reset"
    /\ ~Busy(store)
    /\ pc' = "idle"

\* The instrument finishes the command it is executing.
InstrDone ==
    /\ Busy(store)
    /\ store' = SetBusy(store, FALSE)
    /\ UNCHANGED <<instr, opened, pc, pend, call, ops>>

\* disconnect closing the resource before it writes the local mode.
DisconnectEnd_close_first(r) ==
    /\ store' = store
    /\ instr' = "closed"
    /\ opened' = [opened EXCEPT ![Len(opened)] = "closed"]
    /\ call' = Call("disconnect", "", <<>>, <<>>, None, "InvalidSession", <<>>,
                    <<>>)

\* disconnect on an open resource, r the result of the local mode setter.
DisconnectEnd(r) ==
    /\ store' = r.store
    /\ instr' = "closed"
    /\ opened' = [opened EXCEPT ![Len(opened)] = "closed"]
    /\ call' = Call("disconnect", "", <<>>, <<>>, None, r.outcome, r.ret, r.sent)

\* disconnect: back to local mode, then close the resource
Disconnect ==
    /\ pc = "idle"
    /\ ops < MaxOps
    /\ ops' = ops + 1
    /\ IF instr = "open"
       THEN DisconnectEnd(local_mode_set(store, 0))
       ELSE /\ call' = Call("disconnect", "", <<>>, <<>>, None, NoResource,
                            <<>>, <<>>)
            /\ UNCHANGED <<store, instr, opened>>
    /\ UNCHANGED <<pc, pend>>


\* start
Start ==
    /\ pc = "idle"
    /\ Public("start", "", <<>>, <<>>, None, start(store))

\* pause
Pause ==
    /\ pc = "idle"
    /\ Public("pause", "", <<>>, <<>>, None, pause(store))

\* reset_data_buffers
ResetDataBuffers ==
    /\ pc = "idle"
    /\ Public("reset_data_buffers", "", <<>>, <<>>, None,
           reset_data_buffers(store))

\* buffer_size
GetBufferSize ==
    /\ pc = "idle"
    /\ Public("get", "buffer_size", <<>>, <<>>, None, buffer_size_get(store))

\* A buffer read begun with result r: when the trace is to be queried the
\* call goes on, otherwise it has raised.  The record of the call keeps, in
\* its bit field, whether storage was running when the call was made.
ReadBegin(op, channel, start_bin, bins, r) ==
    /\ ops < MaxOps
    /\ ops' = ops + 1
    /\ store' = r.store
    /\ pc' = IF r.outcome = "ok" THEN "read" ELSE "idle"
    /\ call' = Call(op, "", <<channel, start_bin, bins>>, r.ret,
                    IF Storing(store) THEN <<1>> ELSE <<0>>,
                    IF r.outcome = "ok" THEN "running" ELSE r.outcome, <<>>,
                    r.sent)
    /\ UNCHANGED <<instr, opened, pend>>

\* get_ascii_buffer_data, get_binary_buffer_data, get_non_norm_buffer_data
\* up to the query of the trace
GetBufferData(op, channel, start_bin, bins) ==
    /\ pc = "idle"
    /\ ReadBegin(op, channel, start_bin, bins,
           OnResource(get_buffer_begin(store, op, channel, start_bin, bins)))

\* The buffer read in progress ends with result q.
ReadEnd(q) ==
    /\ store' = q.store
    /\ call' = [call EXCEPT !.outcome = q.outcome, !.ret = q.ret,
                            !.sent = call.sent \o q.sent]
    /\ pc' = "idle"
    /\ UNCHANGED <<instr, opened, pend, ops>>

\* The buffer read in progress queries the trace and returns.
GetBufferDataEnd ==
    /\ pc = "read"
    /\ ReadEnd(get_buffer_end(store, call.op, call.args[1], call.args[2],
                              call.args[3], call.flags[1]))

\* The instrument stores a point for each channel: mantissa m1 and m2,
\* exponent e.  In Loop mode a full buffer drops its oldest point; in 1
\* Shot mode storage stops when the buffer is full.
InstrSample(m1, m2, e) ==
    /\ Storing(store)
    /\ IF Points(store) < MaxPoints
       THEN store' = [store EXCEPT ![<<"TRCL", 1>>] = @ \o <<m1, e>>,
                                   ![<<"TRCL", 2>>] = @ \o <<m2, e>>]
       ELSE IF store[<<"SEND", 0>>] = <<1>>
       THEN store' = [store EXCEPT
                        ![<<"TRCL", 1>>] = Tail(Tail(@)) \o <<m1, e>>,
                        ![<<"TRCL", 2>>] = Tail(Tail(@)) \o <<m2, e>>]
       ELSE store' = [store EXCEPT ![<<"STRT", 0>>] = <<0>>]
    /\ UNCHANGED <<instr, opened, pc, pend, call, ops>>

\* measure_multiple
MeasureMultiple(parameters) ==
    /\ pc = "idle"
    /\ Public("measure_multiple", "", parameters, <<>>, None,
           measure_multiple(store, parameters))

\* The signal the instrument measures changes: it holds v where it held
\* the value of k.
InstrSignal(k, v) ==
    /\ store' = [store EXCEPT ![k] = <<v>>]
    /\ UNCHANGED <<instr, opened, pc, pend, call, ops>>

Errors ==
    /\ pc = "idle"
    /\ Public("errors", "", <<>>, <<>>, None, errors(store))

\* An event in the instrument: status byte m holds v.
InstrStatus(m, v) ==
    /\ store' = [store EXCEPT ![<<m, 0>>] = <<v>>]
    /\ UNCHANGED <<instr, opened, pc, pend, call, ops>>

\* A call of a method of the virtual instrument.
VirtualCall(method, args) ==
    /\ pc = "idle"
    /\ ops < MaxOps
    /\ ops' = ops + 1
    /\ call' = Call(method, "virtual_sr830", args, <<>>, None, "ok",
                    virtual_return(method, args), <<>>)
    /\ UNCHANGED <<instr, opened, store, pc, pend>>

\* connect of the root module, on an object constructed with return_int
RootConnect(return_int, output_interface) ==
    /\ pc = "idle"
    /\ ops < MaxOps
    /\ ops' = ops + 1
    /\ instr' = "open"
    /\ opened' = Append(opened, "open")
    /\ store' = root_connect(store, output_interface).store
    /\ call' = Call("connect", "root", <<output_interface>>, <<return_int>>,
                    None, root_connect(store, output_interface).outcome, <<>>,
                    root_connect(store, output_interface).sent)
    /\ UNCHANGED <<pc, pend>>

\* The object of the root module the last call was made on was constructed
\* with return_int.
RootObject(return_int) == call.name = "root" /\ call.flags = <<return_int>>

\* A tuple getter of the root module, on the object in use
RootGet(return_int, name) ==
    /\ pc = "idle"
    /\ RootObject(return_int)
    /\ Public(name, "root", <<>>, <<return_int>>, None,
              root_get(return_int, store, name))

\* The setter of the same parameter.
RootSet(return_int, name, value) ==
    /\ pc = "idle"
    /\ RootObject(return_int)
    /\ Public("root_set", "root", <<name, value>>, <<return_int>>, None,
              root_set(store, name, value))

\* The command of each automatic function.
AutoCommands == [auto_gain |-> "AGAN", auto_reserve |-> "ARSV", auto_phase |-> "APHS"]

\* auto_gain, auto_reserve, auto_phase: write the command and start polling
AutoFunction(name) ==
    /\ pc = "idle"
    /\ ops < MaxOps
    /\ ops' = ops + 1
    /\ IF instr = "open"
       THEN /\ \E executes \in BOOLEAN : store' = InstrAuto(store, executes)
            /\ pc' = "auto"
            /\ call' = Call(name, "", <<>>, <<>>, None, "running", <<>>,
                            <<<<AutoCommands[name]>>>>)
       ELSE /\ call' = Call(name, "", <<>>, <<>>, None, NoResource, <<>>, <<>>)
            /\ UNCHANGED <<store, pc>>
    /\ UNCHANGED <<instr, opened, pend>>

\* One poll q of the loop `while ifc != 0`: on bit 1 read as 0 the loop
\* ends and the function returns.
AutoPollNext(q) ==
    IF q.outcome = "ok" /\ q.ret # <<0>>
    THEN UNCHANGED vars
    ELSE /\ store' = q.store
         /\ call' = [call EXCEPT !.outcome = q.outcome,
                                  !.sent = call.sent \o q.sent]
         /\ pc' = "idle"
         /\ UNCHANGED <<instr, opened, pend, ops>>

\* One turn of the polling loop of an automatic function.
AutoPoll ==
    /\ pc = "auto"
    /\ AutoPollNext(get_status_byte(store, "serial_poll", <<1>>))
(***************************************************************************)
(* Arguments tried                                                         *)
(***************************************************************************)

\* The integer-coded properties.
IntProperties ==
    {"reference_source", "reference_trigger", "harmonic", "input_configuration",
     "input_shield_grounding", "input_coupling", "line_notch_filter_status",
     "sensitivity", "reserve_mode", "time_constant", "lowpass_filter_slope",
     "sync_filter_status", "output_interface", "key_click_state", "alarm_status",
     "sample_rate", "end_of_buffer_mode", "trigger_start_mode",
     "data_transfer_mode", "local_mode", "power_on_status_clear_bit"}

\* The float-valued properties.
FloatProperties == {"reference_phase_shift", "reference_frequency", "sine_amplitude"}

\* The domain each docstring gives.
Documented(p) ==
    CASE p = "reference_phase_shift" -> -360..720
      [] p = "reference_frequency" -> 1..102000000
      [] p = "sine_amplitude" -> 4..5000
      [] p = "harmonic" -> 1..19999
      [] p = "sensitivity" -> 0..26
      [] p = "time_constant" -> 0..19
      [] p = "sample_rate" -> 0..14
      [] p \in {"input_configuration", "line_notch_filter_status",
                "lowpass_filter_slope"} -> 0..3
      [] p \in {"reference_trigger", "reserve_mode", "data_transfer_mode",
                "local_mode"} -> 0..2
      [] OTHER -> 0..1

\* Values assigned to a property: its whole domain and the two values next
\* to it; of the large domains both ends, their neighbours and values of
\* every length in digits.
Inputs(p) ==
    CASE p = "harmonic" -> {0, 1, 2, 10, 345, 6789, 19999, 20000}
      [] p = "reference_phase_shift" -> {-361, -360, -7, 0, 720, 721}
      [] p = "reference_frequency" -> {0, 1, 1000, 102000000, 102000001}
      [] p = "sine_amplitude" -> {3, 4, 5000, 5001}
      [] OTHER -> {v \in -1..27 : \E d \in Documented(p) : v - d \in {-1, 0, 1}}

Channels == 0..3

Displays == -1..5

Ratios == -1..3

Outputs == -1..2

Parameters == 0..4

Offsets == {-106, -105, -1, 0, 105, 106}

Expands == -1..3

AuxNumbers == 0..5

Voltages == {-106, -105, 0, 7, 105, 106}

SetupNumbers == 0..10

Registers == {"standard_event", "serial_poll", "error", "lia_status", "hello"}

RegisterValues == {-1, 0, 85, 170, 255, 256}

BitValues == {-1, 0, 1, 2}

Bits == {None, <<-1>>, <<0>>, <<7>>, <<8>>}

(***************************************************************************)
(* Specifications                                                          *)
(***************************************************************************)

\* connect() with its default arguments
ConnectDefault == Connect(0, TRUE, TRUE)

\* Sessions on the integer-coded properties.
NextProperties ==
    \/ ConnectDefault
    \/ ResetPoll
    \/ InstrDone
    \/ \E p \in IntProperties : \E v \in Inputs(p) : SetProperty(p, v)
    \/ \E p \in IntProperties : GetProperty(p)
    \/ \E c \in Outputs : SetGpibOverrideRemote(c)
    \/ GetGpibOverrideRemote

SpecProperties == Init /\ [][NextProperties]_vars

\* Sessions on the channel, parameter and output addressed operations and
\* the float-valued properties.
NextMethods ==
    \/ ConnectDefault
    \/ ResetPoll
    \/ InstrDone
    \/ \E p \in FloatProperties : \E v \in Inputs(p) : SetProperty(p, v)
    \/ \E p \in FloatProperties : GetProperty(p)
    \/ \E c \in Channels, d \in Displays, r \in Ratios : SetDisplay(c, d, r)
    \/ \E c \in Channels : GetDisplay(c)
    \/ \E c \in Channels, o \in Outputs : SetFrontOutput(c, o)
    \/ \E c \in Channels : GetFrontOutput(c)
    \/ \E p \in Parameters, o \in Offsets, e \in Expands :
           SetOutputOffsetExpand(p, o, e)
    \/ \E p \in Parameters : GetOutputOffsetExpand(p)
    \/ \E p \in Parameters : AutoOffset(p)
    \/ \E n \in AuxNumbers : GetAuxIn(n)
    \/ \E n \in AuxNumbers, v \in Voltages : SetAuxOut(n, v)
    \/ \E n \in AuxNumbers : GetAuxOut(n)
    \/ \E n \in SetupNumbers : SaveSetup(n)
    \/ \E n \in SetupNumbers : RecallSetup(n)
    \/ \E c \in Channels : ReadDisplay(c)

SpecMethods == Init /\ [][NextMethods]_vars

\* Sessions on status reporting.
NextStatus ==
    \/ ConnectDefault
    \/ ResetPoll
    \/ InstrDone
    \/ \E g \in Registers, v \in RegisterValues, b \in {None, <<7>>} :
           SetEnableRegister(g, v, TRUE, b)
    \/ \E g \in Registers, v \in BitValues, b \in Bits :
           SetEnableRegister(g, v, FALSE, b)
    \/ \E g \in Registers, b \in Bits : GetEnableRegister(g, b)
    \/ \E g \in Registers, b \in Bits : GetStatusByte(g, b)
    \/ EnableAllStatusBytes

SpecStatus == Init /\ [][NextStatus]_vars

\* Sessions on the connection.
NextConnect ==
    \/ \E i \in 0..2, r \in BOOLEAN, l \in BOOLEAN : Connect(i, r, l)
    \/ Reset
    \/ ResetPoll
    \/ InstrDone
    \/ Disconnect
    \/ \E g \in Registers, v \in {0, 85} : SetEnableRegister(g, v, TRUE, None)
    \/ \E p \in {"output_interface", "local_mode"} : \E v \in Inputs(p) :
           SetProperty(p, v)
    \/ \E p \in {"output_interface", "local_mode"} : GetProperty(p)

SpecConnect == Init /\ [][NextConnect]_vars

\* The same sessions when the polling loop keeps taking turns, so that it
\* is left once the instrument reports bit 1 as 1, and the instrument
\* finishes what it executes.
SpecConnectFair ==
    Init /\ [][NextConnect]_vars /\ WF_pc(ResetPollReturns) /\ WF_vars(InstrDone)

BufferOps ==
    {"get_ascii_buffer_data", "get_binary_buffer_data",
     "get_non_norm_buffer_data"}

StartBins == {-1, 0, 16382, 16383}

BinCounts == {0, 1, 16383, 16384}

\* Points the instrument stores: the mantissa of each channel and the
\* exponent.
Samples == {<<300, -2, 124>>, <<-2, 1, 126>>}

\* The instrument as an earlier session may have left it: the end of buffer
\* mode, the fast data transfer mode, and storage running or not.
LeftBy(mode, fast, storing) ==
    [PowerOn EXCEPT ![<<"SEND", 0>>] = <<mode>>, ![<<"FAST", 0>>] = <<fast>>,
                    ![<<"STRT", 0>>] = <<storing>>]

\* The object is constructed while the instrument is as it was left.
InitStorage ==
    /\ instr = "None"
    /\ opened = <<>>
    /\ store \in {LeftBy(mode, fast, storing) :
                      mode \in 0..1, fast \in 0..2, storing \in 0..1}
    /\ pc = "idle"
    /\ pend = NoPend
    /\ call = Call("none", "", <<>>, <<>>, None, "ok", <<>>, <<>>)
    /\ ops = 0

\* Sessions on data storage.
NextStorage ==
    \/ \E r \in BOOLEAN : Connect(1, r, TRUE)
    \/ ResetPoll
    \/ InstrDone
    \/ \E v \in 0..1 : SetProperty("end_of_buffer_mode", v)
    \/ Start
    \/ Pause
    \/ ResetDataBuffers
    \/ GetBufferSize
    \/ \E op \in BufferOps, c \in 1..2, s \in 0..1, b \in 1..2 :
           GetBufferData(op, c, s, b)
    \/ GetBufferDataEnd
    \/ \E p \in Samples : InstrSample(p[1], p[2], p[3])

SpecStorage == InitStorage /\ [][NextStorage]_vars

\* Buffer reads over all their arguments.
NextBufferArgs ==
    \/ \E i \in 0..1 : Connect(i, FALSE, TRUE)
    \/ \E op \in BufferOps, c \in Channels, s \in StartBins, b \in BinCounts :
           GetBufferData(op, c, s, b)
    \/ GetBufferDataEnd

SpecBufferArgs == Init /\ [][NextBufferArgs]_vars

\* Parameter lists of measure_multiple.
ParameterLists ==
    {<<p, q>> : p \in {0, 1, 5, 11, 12}, q \in {1, 2, 10}}
        \cup {<<>>, <<1>>, <<2, 1, 5>>, <<5, 2, 1>>, <<9, 11, 1, 2>>,
              <<1, 2, 3, 4, 5, 6>>, <<1, 2, 3, 4, 5, 6, 7>>}

\* Sessions of measurements.
NextMeasure ==
    \/ \E i \in 0..1 : Connect(i, FALSE, TRUE)
    \/ \E parameters \in ParameterLists : MeasureMultiple(parameters)
    \/ \E k \in {<<"OUTP", 1>>, <<"OUTP", 2>>, <<"OAUX", 1>>}, v \in {-3, 7} :
           InstrSignal(k, v)

SpecMeasure == Init /\ [][NextMeasure]_vars

\* Values of a status byte: nothing set, and values of five, six, six and eight
\* binary digits.
StatusValues == {0, 16, 33, 48, 255}

\* Sessions reading the errors.
NextErrors ==
    \/ \E i \in 0..1 : Connect(i, FALSE, TRUE)
    \/ Errors
    \/ \E m \in StatusCmds, v \in StatusValues : InstrStatus(m, v)

SpecErrors == Init /\ [][NextErrors]_vars

\* Sessions over every operation, for the commands each one writes.
NextExchanges ==
    \/ \E r \in BOOLEAN : Connect(1, r, TRUE)
    \/ Reset
    \/ ResetPoll
    \/ InstrDone
    \/ Disconnect
    \/ \E p \in IntProperties \cup FloatProperties, v \in {1, 5} :
           SetProperty(p, v)
    \/ \E p \in IntProperties \cup FloatProperties : GetProperty(p)
    \/ SetGpibOverrideRemote(1)
    \/ GetGpibOverrideRemote
    \/ SetDisplay(1, 1, 1)
    \/ GetDisplay(1)
    \/ SetFrontOutput(1, 1)
    \/ GetFrontOutput(1)
    \/ SetOutputOffsetExpand(1, 0, 1)
    \/ GetOutputOffsetExpand(1)
    \/ AutoOffset(1)
    \/ GetAuxIn(1)
    \/ SetAuxOut(1, 7)
    \/ GetAuxOut(1)
    \/ SaveSetup(1)
    \/ RecallSetup(1)
    \/ ReadDisplay(1)
    \/ SetEnableRegister("error", 85, TRUE, None)
    \/ SetEnableRegister("error", 1, FALSE, <<7>>)
    \/ \E b \in {None, <<7>>} : GetEnableRegister("error", b)
    \/ \E b \in {None, <<7>>} : GetStatusByte("error", b)
    \/ EnableAllStatusBytes
    \/ Start
    \/ Pause
    \/ ResetDataBuffers
    \/ GetBufferSize
    \/ \E op \in BufferOps, c \in 0..1 : GetBufferData(op, c, 0, 1)
    \/ GetBufferDataEnd
    \/ \E parameters \in {<<1>>, <<1, 2>>} : MeasureMultiple(parameters)
    \/ Errors
    \/ \E m \in {"*STB", "*ESR"} : InstrStatus(m, 33)

SpecExchanges == Init /\ [][NextExchanges]_vars

\* The set methods of the virtual instrument.
VirtualSetMethods ==
    {m \in VirtualMethods :
        m \in {"set_configuration", "set_ref_phase_shift", "set_ref_source",
               "set_ref_freq", "set_reference_trigger", "set_harmonic",
               "set_sine_amplitude", "set_input_configuration",
               "set_input_shield_gnd", "set_input_coupling",
               "set_line_notch_status", "set_sensitivity", "set_reserve_mode",
               "set_time_constant", "set_lp_filter_slope", "set_sync_status",
               "set_display", "set_front_output", "set_output_offset_expand",
               "set_aux_out", "set_output_interface", "set_remote_status",
               "set_key_click_state", "set_alarm", "set_sample_rate",
               "set_end_of_buffer_mode", "set_trigger_start_mode",
               "set_data_transfer_mode", "set_local_mode",
               "set_gpib_overide_remote", "set_enable_register",
               "set_power_on_status_clear_bit"}}

\* Arguments of the methods of the virtual instrument, as many as each
\* signature takes.
VirtualArgs(method) ==
    IF method \in VirtualBuffer
    THEN {<<c, 0, b>> : c \in 1..2, b \in {-1, 0, 1, 3}}
    ELSE IF method = "measure_multiple"
    THEN {<<p>> : p \in {<<>>, <<1, 2>>, <<3, 4, 9>>}}
    ELSE IF method = "set_configuration" THEN {[i \in 1..17 |-> 1]}
    ELSE IF method = "set_enable_register"
    THEN {<<"error", 85, TRUE, None>>, <<"error", 1, FALSE, <<7>>>>}
    ELSE IF method \in {"get_enable_register", "get_status_byte"}
    THEN {<<"error", None>>, <<"error", <<7>>>>}
    ELSE IF method \in {"set_display", "set_output_offset_expand"}
    THEN {<<1, 0, 1>>, <<2, 1, 0>>}
    ELSE IF method \in {"set_front_output", "set_aux_out"}
    THEN {<<1, 0>>, <<2, 1>>}
    ELSE IF method \in {"get_display", "get_front_output",
                        "get_output_offset_expand", "auto_offset",
                        "get_aux_in", "get_aux_out", "save_setup",
                        "recall_setup", "measure", "read_display",
                        "read_aux_in"}
                  \cup (VirtualSetMethods \ {"set_configuration"})
    THEN {<<1>>, <<2>>}
    ELSE {<<>>}

\* Sessions on the virtual instrument.
NextVirtual ==
    \E method \in VirtualMethods : \E args \in VirtualArgs(method) :
        VirtualCall(method, args)

SpecVirtual == Init /\ [][NextVirtual]_vars

\* Codes written to the parameter a root getter reads: the first two and
\* the last of its tuple.
RootCodes(name) == {0, 1, RootGetters[name][3] - 1}

\* Sessions on the root module.
NextRoot ==
    \/ \E return_int \in BOOLEAN, i \in 0..1 : RootConnect(return_int, i)
    \/ \E return_int \in BOOLEAN, name \in DOMAIN RootGetters :
           RootGet(return_int, name)
    \/ \E return_int \in BOOLEAN, name \in DOMAIN RootGetters :
           \E value \in RootCodes(name) : RootSet(return_int, name, value)

SpecRoot == Init /\ [][NextRoot]_vars

\* Sessions on the automatic functions.
NextAuto ==
    \/ \E i \in 0..1, r \in BOOLEAN : Connect(i, r, TRUE)
    \/ ResetPoll
    \/ InstrDone
    \/ \E name \in DOMAIN AutoCommands : AutoFunction(name)
    \/ AutoPoll
    \/ \E p \in {"time_constant", "sensitivity"}, v \in {0, 11} :
           SetProperty(p, v)

SpecAuto == Init /\ [][NextAuto]_vars

Next ==
    NextProperties \/ NextMethods \/ NextStatus \/ NextConnect \/ NextStorage
        \/ NextBufferArgs \/ NextMeasure \/ NextErrors
        \/ NextExchanges \/ NextVirtual \/ NextRoot \/ NextAuto

Spec == Init /\ [][Next]_vars

(***************************************************************************)
(* Properties checked                                                      *)
(***************************************************************************)

EnableRegisters == {"standard_event", "serial_poll", "error", "lia_status"}

\* C1: on an open resource, assigning a value of its documented domain to an
\* integer-coded property succeeds, and reading the property right after a
\* successful assignment of such a value returns that value.
C1_PropertyRoundTrip ==
    [][/\ (/\ instr = "open"
           /\ ops' = ops + 1
           /\ call'.op = "set"
           /\ call'.name \in IntProperties
           /\ call'.args[1] \in Documented(call'.name))
          => call'.outcome = "ok"
       /\ (/\ call.op = "set"
           /\ call.name \in IntProperties
           /\ call.outcome = "ok"
           /\ call.args[1] \in Documented(call.name)
           /\ call'.op = "get"
           /\ call'.name = call.name)
          => (call'.outcome = "ok" /\ call'.ret = call.args)]_vars

\* C1, witness: harmonic read back as 19999, which only an assignment put there.
C1_Witness ==
    /\ call.op = "get"
    /\ call.name = "harmonic"
    /\ call.outcome = "ok"
    /\ call.ret = <<19999>>

\* The arguments of a setter call lie in the domains its docstring gives.
InDocumentedDomain(c) ==
    CASE c.op = "set" -> c.args[1] \in Documented(c.name)
      [] c.op = "set_display" ->
            c.args[1] \in {1, 2} /\ c.args[2] \in 0..4 /\ c.args[3] \in 0..2
      [] c.op = "set_front_output" -> c.args[1] \in {1, 2} /\ c.args[2] \in {0, 1}
      [] c.op = "set_output_offset_expand" ->
            c.args[1] \in {1, 2, 3} /\ c.args[2] \in -105..105 /\ c.args[3] \in 0..2
      [] c.op = "set_aux_out" -> c.args[1] \in 1..4 /\ c.args[2] \in -105..105
      [] c.op \in {"save_setup", "recall_setup"} -> c.args[1] \in 1..9

SetterOps ==
    {"set", "set_display", "set_front_output", "set_output_offset_expand",
     "set_aux_out", "save_setup", "recall_setup"}

\* What C2 asks of one setter call on an open resource.
ValidatesDomain(c) ==
    IF InDocumentedDomain(c)
    THEN c.outcome = "ok" /\ Len(c.sent) = 1
    ELSE c.outcome = "ValueError" /\ c.sent = <<>>

\* C2: on an open resource every setter writes its command exactly when its
\* arguments lie in the documented domain and raises ValueError otherwise.
C2_SettersValidate ==
    (instr = "open" /\ call.op \in SetterOps) => ValidatesDomain(call)

ChannelOps ==
    {"set_display", "get_display", "set_front_output", "get_front_output",
     "read_display"}

\* The arguments of a channel-addressed call other than the channel are valid.
OtherArgsValid(c) ==
    CASE c.op = "set_display" -> c.args[2] \in 0..4 /\ c.args[3] \in 0..2
      [] c.op = "set_front_output" -> c.args[2] \in {0, 1}
      [] OTHER -> TRUE

\* C3: on an open resource the channel-addressed operations exchange a
\* message with the instrument for channels 1 and 2 and raise ValueError,
\* sending nothing, for every other channel.
C3_ChannelsOneAndTwo ==
    (instr = "open" /\ call.op \in ChannelOps /\ OtherArgsValid(call))
        => IF call.args[1] \in {1, 2}
           THEN call.sent # <<>> /\ call.outcome # "ValueError"
           ELSE call.sent = <<>> /\ call.outcome = "ValueError"

\* C4: get_display right after a successful set_display of the same channel
\* returns the display and ratio set, and set_display leaves what get_display
\* returns for the other channel as it was.
C4_DisplayRoundTrip ==
    [][/\ (/\ call.op = "set_display"
           /\ call.outcome = "ok"
           /\ call'.op = "get_display"
           /\ call'.args[1] = call.args[1])
          => (call'.outcome = "ok" /\ call'.ret = <<call.args[2], call.args[3]>>)
       /\ (/\ call'.op = "set_display"
           /\ call'.outcome = "ok"
           /\ ops' = ops + 1)
          => \A c \in {1, 2} \ {call'.args[1]} :
                 get_display(store', c).ret = get_display(store, c).ret]_vars

\* C5: get_output_offset_expand and auto_offset accept parameters 1, 2 and 3
\* and raise ValueError for any other, and get_output_offset_expand right
\* after a successful set_output_offset_expand of the same parameter returns
\* the offset and expand set.
C5_OffsetExpandRoundTrip ==
    [][/\ (/\ instr = "open"
           /\ ops' = ops + 1
           /\ call'.op \in {"get_output_offset_expand", "auto_offset"})
          => (call'.args[1] \in {1, 2, 3} <=> call'.outcome # "ValueError")
       /\ (/\ call.op = "set_output_offset_expand"
           /\ call.outcome = "ok"
           /\ call'.op = "get_output_offset_expand"
           /\ call'.args[1] = call.args[1])
          => (call'.outcome = "ok" /\ call'.ret = <<call.args[2], call.args[3]>>)]_vars

\* C6: reading gpib_override_remote right after assigning it 0 or 1 returns
\* the value assigned.
C6_GpibOverrideRoundTrip ==
    [][(/\ call.op = "set"
        /\ call.name = "gpib_override_remote"
        /\ call.outcome = "ok"
        /\ call'.op = "get"
        /\ call'.name = "gpib_override_remote")
       => (call'.outcome = "ok" /\ call'.ret = call.args)]_vars

\* C7: on an open resource set_enable_register(register, v) with v in 0..255
\* succeeds; get_enable_register(register) right after it returns v; and the
\* call leaves what get_enable_register returns for the other three
\* registers as it was.
C7_EnableRegisterRoundTrip ==
    [][/\ (/\ instr = "open"
           /\ ops' = ops + 1
           /\ call'.op = "set_enable_register"
           /\ call'.name \in EnableRegisters
           /\ call'.flags = <<TRUE>>
           /\ call'.args[1] \in 0..255)
          => call'.outcome = "ok"
       /\ (/\ call.op = "set_enable_register"
           /\ call.flags = <<TRUE>>
           /\ call.outcome = "ok"
           /\ call'.op = "get_enable_register"
           /\ call'.name = call.name
           /\ call'.bit = None)
          => (call'.outcome = "ok" /\ call'.ret = call.args)
       /\ (/\ ops' = ops + 1
           /\ call'.op = "set_enable_register"
           /\ call'.flags = <<TRUE>>
           /\ call'.outcome = "ok")
          => \A g \in EnableRegisters \ {call'.name} :
                 get_enable_register(store', g, None).ret
                     = get_enable_register(store, g, None).ret]_vars

\* C7, witness: the error enable register read back as 170, a value only
\* set_enable_register put there.
C7_Witness ==
    /\ call.op = "get_enable_register"
    /\ call.name = "error"
    /\ call.bit = None
    /\ call.outcome = "ok"
    /\ call.ret = <<170>>

\* The arguments of a status call are an invalid combination.
InvalidStatusArgs(c) ==
    CASE c.op = "set_enable_register" ->
            \/ c.name \notin EnableRegisters
            \/ c.flags = <<TRUE>> /\ c.args[1] \notin 0..255
            \/ c.flags # <<TRUE>>
                 /\ (c.bit \notin {<<b>> : b \in 0..7} \/ c.args[1] \notin {0, 1})
      [] c.op \in {"get_enable_register", "get_status_byte"} ->
            \/ c.name \notin EnableRegisters
            \/ c.bit # None /\ c.bit \notin {<<b>> : b \in 0..7}
      [] OTHER -> FALSE

\* C8: set_enable_register, get_enable_register and get_status_byte raise
\* ValueError for every invalid combination of arguments.
C8_StatusArgsValueError ==
    InvalidStatusArgs(call) => call.outcome = "ValueError"

\* C9: when enable_all_status_bytes has returned, get_enable_register returns
\* 255 for each of the four registers; on an open resource it returns.
C9_EnableAll ==
    (call.op = "enable_all_status_bytes")
        => /\ instr = "open" => call.outcome = "ok"
           /\ call.outcome = "ok" =>
                 \A g \in EnableRegisters :
                     /\ get_enable_register(store, g, None).outcome = "ok"
                     /\ get_enable_register(store, g, None).ret = <<255>>

\* C9, witness: enable_all_status_bytes has returned after a session in
\* which the registers were set to other values.
C9_Witness ==
    /\ call.op = "enable_all_status_bytes"
    /\ call.outcome = "ok"
    /\ Len(call.sent) = 4
    /\ ops = MaxOps

\* C10: when connect(output_interface, reset, local_lockout) has returned,
\* the instrument's output interface is output_interface, the four enable
\* registers hold 255 and the local mode is 2 with local_lockout and 1
\* without.
C10_Connect ==
    (call.op = "connect" /\ call.outcome = "ok")
        => /\ call.args[1] \in {0, 1}
           /\ store[<<"OUTX", 0>>] = call.args
           /\ output_interface_get(store).ret = call.args
           /\ \A g \in EnableRegisters :
                  get_enable_register(store, g, None).ret = <<255>>
           /\ store[<<"LOCL", 0>>] = <<IF call.flags[2] THEN 2 ELSE 1>>
           /\ local_mode_get(store).ret = <<IF call.flags[2] THEN 2 ELSE 1>>

\* C10, witness: connect(1, True, False) has returned.
C10_Witness ==
    /\ call.op = "connect"
    /\ call.outcome = "ok"
    /\ call.args = <<1>>
    /\ call.flags = <<TRUE, FALSE>>


\* C11: disconnect on an open resource writes LOCL 0 while the resource is
\* still open, so the instrument is in local mode when the resource closes;
\* and on the closed resource no later call other than connect succeeds or
\* reaches the instrument.
C11_DisconnectOrder ==
    [][/\ (/\ instr = "open"
           /\ call'.op = "disconnect"
           /\ ops' = ops + 1)
          => /\ call'.outcome = "ok"
             /\ call'.sent = <<Command("LOCL", <<0>>, <<>>)>>
             /\ store'[<<"LOCL", 0>>] = <<0>>
             /\ instr' = "closed"
       /\ (/\ instr = "closed"
           /\ ops' = ops + 1
           /\ call'.op # "connect")
          => /\ call'.outcome \notin {"ok", "running"}
             /\ call'.sent = <<>>
             /\ store' = store
             /\ instr' = "closed"]_vars

\* C11, witness: a property read on the resource that disconnect closed has
\* failed.
C11_Witness ==
    /\ instr = "closed"
    /\ call.op = "get"
    /\ call.outcome = "InvalidSession"
    /\ store[<<"LOCL", 0>>] = <<0>>

\* C12: on an open resource each buffer read goes on to query the
\* instrument exactly when channel is 1 or 2, start_bin is in 0..16382 and
\* bins is in 1..16383, and raises ValueError, sending nothing, otherwise.
C12_BufferReadArgs ==
    (instr = "open" /\ call.op \in BufferOps)
        => IF /\ call.args[1] \in {1, 2}
              /\ call.args[2] \in 0..16382
              /\ call.args[3] \in 1..16383
           THEN call.outcome # "ValueError" /\ call.sent # <<>>
           ELSE call.outcome = "ValueError" /\ call.sent = <<>>

TraceQueries == {"TRCA", "TRCB", "TRCL"}

\* PAUS is among the messages sent and every trace query comes after it.
PausedBeforeQuery(sent) ==
    \E i \in 1..Len(sent) :
        /\ sent[i] = <<"PAUS">>
        /\ \A j \in 1..Len(sent) : sent[j][1] \in TraceQueries => i < j

\* C13: a buffer read that finds the end of buffer mode at Loop writes PAUS
\* before its trace query, and from then until the read has ended the
\* instrument stores no point.
C13_PauseBeforeRead ==
    [][/\ (/\ pc = "idle"
           /\ pc' = "read"
           /\ store[<<"SEND", 0>>] = <<1>>)
          => call'.flags = <<1>>
       /\ (call'.op \in BufferOps /\ call'.flags = <<1>>)
          => PausedBeforeQuery(call'.sent)
       /\ (pc = "read" /\ call.flags = <<1>>)
          => /\ store'[<<"TRCL", 1>>] = store[<<"TRCL", 1>>]
             /\ store'[<<"TRCL", 2>>] = store[<<"TRCL", 2>>]]_vars

\* C13, witness: a read in Loop mode has returned points, which the
\* instrument stored while storage was running.
C13_Witness ==
    /\ call.op \in BufferOps
    /\ call.flags = <<1>>
    /\ call.outcome = "ok"
    /\ Len(call.ret) = 2

\* C14: get_non_norm_buffer_data(channel, start_bin, bins) that has returned
\* returns exactly bins values, the i-th of which is w[2i] * 2^(w[2i+1] -
\* 124) for the words w the instrument holds for the bins asked for (counted
\* from 0: mantissa at the even index, exponent at the odd index after it).
C14_NonNormDecode ==
    (call.op = "get_non_norm_buffer_data" /\ call.outcome = "ok")
        => /\ Len(call.ret) = call.args[3]
           /\ \A i \in 0..(call.args[3] - 1) :
                  call.ret[i + 1] =
                      store[<<"TRCL", call.args[1]>>][2 * (call.args[2] + i) + 1]
                      * Pow2(store[<<"TRCL", call.args[1]>>]
                                 [2 * (call.args[2] + i) + 2] - 124)

\* C14, witness: two points of channel 1 were read, one of them with a
\* negative mantissa and a mantissa of more than one byte among them.
C14_Witness ==
    /\ call.op = "get_non_norm_buffer_data"
    /\ call.outcome = "ok"
    /\ call.ret = <<300, -8>>

StartCommands == {<<"STRT">>, <<"STRD">>}

\* C15: start that has returned has sent exactly one start command, after
\* reading the fast data transfer mode: STRT when the mode is 0, STRD when
\* it is 1 or 2.
C15_StartCommand ==
    (call.op = "start" /\ call.outcome = "ok")
        => /\ store[<<"FAST", 0>>][1] \in 0..2
           /\ Cardinality({i \in 1..Len(call.sent) :
                               call.sent[i] \in StartCommands}) = 1
           /\ call.sent[Len(call.sent)] =
                  IF store[<<"FAST", 0>>] = <<0>> THEN <<"STRT">> ELSE <<"STRD">>

\* C15, witness: start has returned with fast data transfer in mode 2.
C15_Witness ==
    /\ call.op = "start"
    /\ call.outcome = "ok"
    /\ store[<<"FAST", 0>>] = <<2>>
    /\ Storing(store)

\* C16: on an open resource measure_multiple(parameters) queries the
\* instrument exactly when every parameter is in 1..11 and there are 2 to 6
\* of them, raising ValueError otherwise; when it queries it sends one SNAP?
\* command listing the parameters in the order given and returns the value
\* of each parameter in that order.
C16_MeasureMultiple ==
    [][(/\ instr = "open"
        /\ ops' = ops + 1
        /\ call'.op = "measure_multiple")
       => IF /\ \A i \in 1..Len(call'.args) : call'.args[i] \in 1..11
             /\ Len(call'.args) \in 2..6
          THEN /\ call'.outcome = "ok"
               /\ call'.sent = <<Query("SNAP", call'.args, <<",">>)>>
               /\ Len(call'.ret) = Len(call'.args)
               /\ \A i \in 1..Len(call'.args) :
                      call'.ret[i] = store[SnapKey(call'.args[i])][1]
          ELSE call'.outcome = "ValueError" /\ call'.sent = <<>>]_vars

\* C17: reading the errors property never raises: for any values of the
\* four status bytes the read returns a list, and it returns the empty list
\* when all four status bytes are 0.
C17_ErrorsNeverRaises ==
    [][(/\ instr = "open"
        /\ ops' = ops + 1
        /\ call'.op = "errors")
       => /\ call'.outcome = "ok"
          /\ (\A m \in StatusCmds : store[<<m, 0>>] = <<0>>)
                 => call'.ret = <<>>]_vars

\* C17 for the values the string indexing covers: with a serial poll byte
\* of 32 or more, and a standard event byte of 32 or more when bit 5 of
\* the serial poll digits is set, the read returns a list.
C17x ==
    [][(/\ instr = "open"
        /\ ops' = ops + 1
        /\ call'.op = "errors"
        /\ store[<<"*STB", 0>>][1] >= 32
        /\ store[<<"*ESR", 0>>][1] >= 32)
       => call'.outcome = "ok"]_vars

\* Operations that write several commands: connect (output interface,
\* enable registers, local mode), reset (*RST and its polling),
\* enable_all_status_bytes, start (FAST? then STRT or STRD), errors and the
\* buffer reads (SEND?, PAUS and the trace query); the auto functions
\* write their command and then poll the serial poll status byte.
SeveralCommandOps ==
    {"connect", "reset", "enable_all_status_bytes", "start", "errors",
     "auto_gain", "auto_reserve", "auto_phase"} \cup BufferOps

VirtualGetMethods ==
    {m \in VirtualMethods :
        m \in VirtualBuffer
            \cup (VirtualZero \ {"set_output_offset_expand"})
            \cup {"get_ref_phase_shift", "get_ref_freq", "get_sine_amplitude",
                  "get_configuration", "get_sensitivity", "get_display",
                  "get_id", "measure_multiple"}}

\* The length the arguments of a method give its sequence.
VirtualLen(method, args) ==
    IF method \in VirtualBuffer THEN RangeLen(args[3])
    ELSE IF method = "measure_multiple" THEN Len(args[1])
    ELSE 2

\* v is 0, an empty dictionary, or a sequence of n 0's.
ZeroValue(v, n) ==
    IF v.type \in {"int", "float"} THEN v.items[1][1] = 0
    ELSE IF v.type = "dict" THEN v.items = <<>>
    ELSE IF v.type \in {"tuple", "generator"}
    THEN Len(v.items) = n /\ \A i \in 1..Len(v.items) : v.items[i][1] = 0
    ELSE FALSE

\* C19: in the virtual instrument every get method (and measure_multiple)
\* returns 0, an empty dictionary, or a sequence of 0's whose length its
\* arguments determine, and every set method returns nothing.
C19_VirtualReturns ==
    (call.name = "virtual_sr830")
        => /\ (call.op \in VirtualGetMethods)
                 => /\ call.ret # <<>>
                    /\ ZeroValue(call.ret[1], VirtualLen(call.op, call.args))
           /\ (call.op \in VirtualSetMethods) => call.ret = <<>>

\* C19 but for get_sensitivity, get_id, measure_multiple and
\* set_output_offset_expand.
C19x ==
    (call.name = "virtual_sr830"
        /\ call.op \notin {"get_sensitivity", "get_id", "measure_multiple",
                            "set_output_offset_expand"})
        => /\ (call.op \in VirtualGetMethods)
                 => /\ call.ret # <<>>
                    /\ ZeroValue(call.ret[1], VirtualLen(call.op, call.args))
           /\ (call.op \in VirtualSetMethods) => call.ret = <<>>

\* C20: in the root module a tuple getter called on an open resource
\* returns the instrument's integer code when the object was constructed
\* with return_int=True, and the entry of its class tuple at that index
\* when it was constructed with return_int=False.
C20_ReturnInt ==
    [][(/\ instr = "open"
        /\ ops' = ops + 1
        /\ call'.name = "root"
        /\ call'.op \in DOMAIN RootGetters)
       => /\ call'.outcome = "ok"
          /\ call'.ret =
                 <<IF call'.flags[1]
                   THEN IntValue(store[<<RootGetters[call'.op][1], 0>>][1])
                   ELSE TupleEntry(RootGetters[call'.op][2],
                                   store[<<RootGetters[call'.op][1], 0>>][1])>>
      ]_vars

\* C20 for objects constructed with return_int=False.
C20x ==
    [][(/\ instr = "open"
        /\ ops' = ops + 1
        /\ call'.name = "root"
        /\ call'.op \in DOMAIN RootGetters
        /\ call'.flags[1] = FALSE)
       => /\ call'.outcome = "ok"
          /\ call'.ret =
                 <<TupleEntry(RootGetters[call'.op][2],
                              store[<<RootGetters[call'.op][1], 0>>][1])>>
      ]_vars

\* The messages of sent before the first OUTX command contain no query.
OutxBeforeQueries(sent) ==
    \A i \in 1..Len(sent) :
        IsQuery(sent[i]) => \E j \in 1..(i - 1) : Head(sent[j]) = "OUTX"

\* C21: in connect() the output interface command OUTX is written before
\* any query, for every combination of arguments: no query is written
\* between opening the resource and writing OUTX.
C21_OutxFirst ==
    (call.op = "connect" /\ call.outcome # "running")
        => OutxBeforeQueries(call.sent)

\* C21 for connect(reset=False), and for connect of the root module.
C21x ==
    (call.op = "connect" /\ call.outcome # "running"
        /\ (call.name = "root" \/ call.flags[1] = FALSE))
        => OutxBeforeQueries(call.sent)

\* C22: auto_gain, auto_reserve and auto_phase return only once the
\* instrument reports that no command execution is in progress: when one
\* of them returns, the automatic function is no longer executing.
C22_AutoReturnsWhenDone ==
    [][(/\ pc = "auto"
        /\ pc' = "idle"
        /\ call'.outcome = "ok")
       => ~Busy(store')]_vars

\* C22, the commands: each automatic function writes its command and then
\* only polls bit 1 of the serial poll status byte.
C22x ==
    (call.op \in DOMAIN AutoCommands /\ call.sent # <<>>)
        => /\ call.sent[1] = <<AutoCommands[call.op]>>
           /\ \A i \in 2..Len(call.sent) : call.sent[i] = <<"*STB", "?", " ", "1">>

\* C23: reset writes *RST and then polls bit 1 of the serial poll status
\* byte; it does not return while the bit reads 0, it returns on a poll
\* that reads 1, and so it returns whenever the instrument comes to report
\* bit 1 as 1.
C23_ResetPolls ==
    /\ [][(pc = "reset" /\ call.op = "reset")
            => /\ (Busy(store) /\ store' = store) => pc' = "reset"
               /\ ~Busy(store)
                     => /\ pc' = "idle"
                        /\ call'.outcome = "ok"
                        /\ call'.sent = <<RST, <<"*STB", "?", " ", "1">>>>]_vars
    /\ (pc = "reset") ~> (pc = "idle")

\* C23, witness: reset has returned after a poll that read 1.
C23_Witness ==
    /\ call.op = "reset"
    /\ call.outcome = "ok"
    /\ pc = "idle"
    /\ call.sent = <<RST, <<"*STB", "?", " ", "1">>>>
    /\ ~Busy(store)

\* C24: a buffer read made in Loop mode while storage is running restarts
\* loop storage after the data has been read: when the call returns, the
\* instrument is storing again and the end of buffer mode is still Loop.
C24_LoopRestarted ==
    [][(/\ pc = "read"
        /\ pc' = "idle"
        /\ call.op \in BufferOps
        /\ call.flags = <<1>>
        /\ call.bit = <<1>>
        /\ call'.outcome = "ok")
       => /\ Storing(store')
          /\ store'[<<"SEND", 0>>] = <<1>>]_vars

\* C24, what the code does: the read ends by writing SEND 1, so the mode is
\* Loop again, and it writes no STRT, so storage stays as PAUS left it.
C24x ==
    [][(/\ pc = "read"
        /\ pc' = "idle"
        /\ call.op \in BufferOps
        /\ call.flags = <<1>>
        /\ call'.outcome = "ok")
       => /\ ~Storing(store')
          /\ store'[<<"SEND", 0>>] = <<1>>
          /\ call'.sent[Len(call'.sent)] = <<"SEND", " ", "1">>
          /\ \A j \in 1..Len(call'.sent) : call'.sent[j][1] # "STRT"]_vars

\* The commands of a call that query status byte m.
Reads(sent, m) == \E j \in 1..Len(sent) : sent[j] = <<m, "?">>

\* C25: for every value of the serial poll status byte, errors that has
\* returned reports 'Interface output buffer is non-empty' exactly when bit
\* 4 of the byte is 1, and has read the error, LIA and standard event status
\* bytes exactly when bits 2, 3 and 5 of the byte are 1.
C25_SerialPollBits ==
    [][(/\ instr = "open"
        /\ ops' = ops + 1
        /\ call'.op = "errors"
        /\ call'.outcome = "ok")
       => LET sp == store[<<"*STB", 0>>][1]
              mav == \E j \in 1..Len(call'.ret) :
                         call'.ret[j] = "Interface output buffer is non-empty"
          IN  /\ mav <=> Bit(sp, 4) = 1
              /\ Reads(call'.sent, "ERRS") <=> Bit(sp, 2) = 1
              /\ Reads(call'.sent, "LIAS") <=> Bit(sp, 3) = 1
              /\ Reads(call'.sent, "*ESR") <=> Bit(sp, 5) = 1]_vars

\* C25, what the code does: the digits of format(sp, "b") are indexed from
\* the most significant one, so that of a byte of n digits sp[i] is bit
\* n - 1 - i; a read that returns has looked at those bits.
C25x ==
    [][(/\ instr = "open"
        /\ ops' = ops + 1
        /\ call'.op = "errors"
        /\ call'.outcome = "ok")
       => LET sp == store[<<"*STB", 0>>][1]
              n == Len(Bin(sp))
              mav == \E j \in 1..Len(call'.ret) :
                         call'.ret[j] = "Interface output buffer is non-empty"
          IN  /\ n >= 6
              /\ mav <=> Bit(sp, n - 5) = 1
              /\ Reads(call'.sent, "ERRS") <=> Bit(sp, n - 3) = 1
              /\ Reads(call'.sent, "LIAS") <=> Bit(sp, n - 4) = 1
              /\ Reads(call'.sent, "*ESR") <=> Bit(sp, n - 6) = 1]_vars

\* The description at index i of a table is among the errors returned.
Reported(ret, texts, i) == \E j \in 1..Len(ret) : ret[j] = texts[i + 1]

\* C26: errors that has returned includes, of each status byte it has read,
\* the description at index i exactly when bit i of the byte is 1: for the
\* error status byte every described bit, for the LIA status byte bits 0 to
\* 3 only, for the standard event status byte bits 0, 2, 4 and 5 only.
C26_IndexIsBit ==
    [][(/\ instr = "open"
        /\ ops' = ops + 1
        /\ call'.op = "errors"
        /\ call'.outcome = "ok")
       => LET esb == store[<<"ERRS", 0>>][1]
              lsb == store[<<"LIAS", 0>>][1]
              sesb == store[<<"*ESR", 0>>][1]
          IN  /\ Reads(call'.sent, "ERRS")
                    => \A i \in 0..7 :
                           _error_status_byte[i + 1] # ""
                               => (Reported(call'.ret, _error_status_byte, i)
                                       <=> Bit(esb, i) = 1)
              /\ Reads(call'.sent, "LIAS")
                    => \A i \in 0..6 :
                           Reported(call'.ret, _lia_status_byte, i)
                               <=> (i \in 0..3 /\ Bit(lsb, i) = 1)
              /\ Reads(call'.sent, "*ESR")
                    => \A i \in {0, 2, 4, 5, 6, 7} :
                           Reported(call'.ret, _standard_event_status_byte, i)
                               <=> (i \in {0, 2, 4, 5} /\ Bit(sesb, i) = 1)]_vars

\* C26, what the code does: the digits of format(byte, "b") are enumerated
\* from the most significant one, so that of a byte of n digits the
\* description at index i is included when bit n - 1 - i is 1.
C26x ==
    [][(/\ instr = "open"
        /\ ops' = ops + 1
        /\ call'.op = "errors"
        /\ call'.outcome = "ok")
       => LET esb == store[<<"ERRS", 0>>][1]
              lsb == store[<<"LIAS", 0>>][1]
              sesb == store[<<"*ESR", 0>>][1]
              Digit(v, i) == i < Len(Bin(v)) /\ Bit(v, Len(Bin(v)) - 1 - i) = 1
          IN  /\ Reads(call'.sent, "ERRS")
                    => \A i \in 0..7 :
                           _error_status_byte[i + 1] # ""
                               => (Reported(call'.ret, _error_status_byte, i)
                                       <=> Digit(esb, i))
              /\ Reads(call'.sent, "LIAS")
                    => \A i \in 0..6 :
                           Reported(call'.ret, _lia_status_byte, i)
                               <=> (i \in 0..3 /\ Digit(lsb, i))
              /\ Reads(call'.sent, "*ESR")
                    => \A i \in {0, 2, 4, 5, 6, 7} :
                           Reported(call'.ret, _standard_event_status_byte, i)
                               <=> (i \in {0, 2, 4, 5} /\ Digit(sesb, i))]_vars

\* self.instr and the handles opened agree: self.instr is None until a
\* handle is opened, and then refers to the newest one.
InstrIsNewest ==
    instr = IF opened = <<>> THEN "None" ELSE opened[Len(opened)]

\* C27: after any sequence of connect() and disconnect() on one object, at
\* most one of the resource handles the object has opened is open: every
\* handle but the one self.instr refers to is closed.
C27_OneHandleOpen ==
    \A i \in 1..Len(opened) : i < Len(opened) => opened[i] = "closed"

\* C27, what the code does: disconnect() closes the handle self.instr
\* refers to, and a handle is left open only by a connect() made while
\* self.instr was open.
C27x ==
    [][/\ (call'.op = "disconnect" /\ ops' = ops + 1 /\ instr = "open")
          => /\ instr' = "closed"
             /\ opened'[Len(opened')] = "closed"
       /\ (call'.op = "connect" /\ ops' = ops + 1)
          => /\ Len(opened') = Len(opened) + 1
             /\ \A i \in 1..Len(opened) : opened'[i] = opened[i]]_vars

\* C28: a buffer read does not retry or recover: when its trace query fails
\* after PAUS has been written in Loop mode, the call ends with that
\* failure, the query has been sent once, no command is written after it,
\* and the instrument is left paused.
C28_NoRecovery ==
    [][(/\ pc = "read"
        /\ pc' = "idle"
        /\ call.op \in BufferOps
        /\ call.flags = <<1>>
        /\ call'.outcome # "ok")
       => /\ call'.ret = <<>>
          /\ call.sent[Len(call.sent)] = <<"PAUS">>
          /\ Len(call'.sent) = Len(call.sent) + 1
          /\ \A j \in 1..Len(call'.sent) :
                 call'.sent[j][1] \in TraceQueries <=> j = Len(call'.sent)
          /\ ~Storing(store')]_vars

\* C28, witness: a read made in Loop mode while storage was running has
\* failed at its trace query, and the instrument is paused.
C28_Witness ==
    /\ pc = "idle"
    /\ call.op \in BufferOps
    /\ call.flags = <<1>>
    /\ call.bit = <<1>>
    /\ call.outcome = "VisaIOError"
    /\ Len(call.sent) > 2
    /\ ~Storing(store)
====
